---------------------------- MODULE Spec2Model ----------------------------
(***************************************************************************)
(* Model of the extraction-and-statistics core of Agent_ADK_Analyser       *)
(* (src/app/parser.py): MQL5Parser, CSVBacktestParser and create_summary.  *)
(*                                                                         *)
(* Texts are TLA+ strings and are processed character by character, as     *)
(* the regular expressions and the str methods of the source do.  Floats   *)
(* are exact rationals [n, d] (d = 0 is NaN); the PnL cells of the model   *)
(* hold integer texts, so sums, means and rates are exact.                 *)
(***************************************************************************)
EXTENDS Integers, Sequences, FiniteSets, TLC

VARIABLES
    pc,          \* the entry point that returned last ("idle" before any call)
    csv_file,    \* the file handed to parse_csv_file
    csv_data,    \* the mapping parse_csv_file returned
    csv_validation,  \* the mapping validate_csv_structure returned
    mq5_file,    \* the source text handed to parse_mq5_file
    mq5_data,    \* the mapping parse_mq5_file returned
    sum_args,    \* the (mq5_data, csv_data) pair handed to create_summary
    summary,     \* the text create_summary returned
    clock,       \* datetime.now(), in whole seconds
    strategies,  \* BasicStore.strategies: identifier -> stored entry
    store_calls, \* the store_strategy calls that returned success, in order,
                 \* since the last delete_strategy: identifier and entry
    store_base,  \* len(strategies) when the first of these calls began
    uploads,     \* the files under storage/uploads: path -> content
    reports,     \* the names of the files under reports
    requests     \* the requests received, each with its answer once given

parser_vars ==
    <<pc, csv_file, csv_data, csv_validation, mq5_file, mq5_data, sum_args,
      summary>>

server_vars ==
    <<clock, strategies, store_calls, store_base, uploads, reports, requests>>

vars == <<parser_vars, server_vars>>

---------------------------------------------------------------------------
(* Bounds *)

MaxRows == 3         \* data rows of a table
MaxComments == 1     \* comment lines of a table
MaxCommentedRows == 1  \* data rows of a table that has comment lines
MaxExtraRows == 2    \* data rows after the first ten of a long table
MaxNameLines == 2    \* naming lines at the head of a source text
MaxStatements == 2   \* declarations and functions of a source text
MaxClock == 2        \* seconds the clock advances
MaxStores == 3       \* store_strategy calls without a delete in between

---------------------------------------------------------------------------
(* Generic helpers *)

Abs(x) == IF x < 0 THEN -x ELSE x

Min2(a, b) == IF a < b THEN a ELSE b

Max2(a, b) == IF a < b THEN b ELSE a

RECURSIVE GCD(_, _)
GCD(a, b) == IF b = 0 THEN a ELSE GCD(b, a % b)

Range(s) == {s[i] : i \in 1..Len(s)}

EmptyMap == <<>>

HasKey(m, k) == k \in DOMAIN m

\* dict.get(key, default)
Get(m, k, default) == IF k \in DOMAIN m THEN m[k] ELSE default

\* The character of a text at a position
Ch(s, i) == SubSeq(s, i, i)

---------------------------------------------------------------------------
(* Floats: exact rationals, NaN is d = 0 *)

NaN == [n |-> 0, d |-> 0]

Rat(n, d) == LET g == GCD(Abs(n), d) IN [n |-> n \div g, d |-> d \div g]

Zero == Rat(0, 1)

IsNaN(r) == r.d = 0

RatLeq(a, b) == a.n * b.d <= b.n * a.d

\* Python's format(x, ".2f"): round half to even on the hundredths
TwoDigits(k) == IF k < 10 THEN "0" \o ToString(k) ELSE ToString(k)

Fmt2(r) ==
    IF IsNaN(r) THEN "nan"
    ELSE LET a == Abs(r.n) * 100
             q == a \div r.d
             rem2 == 2 * (a % r.d)
             h == IF rem2 > r.d \/ (rem2 = r.d /\ q % 2 = 1) THEN q + 1 ELSE q
         IN (IF r.n < 0 THEN "-" ELSE "")
              \o ToString(h \div 100) \o "." \o TwoDigits(h % 100)

---------------------------------------------------------------------------
(* Python text helpers *)

Whitespace == {" ", "\t", "\n", "\r"}

RECURSIVE LStrip(_)
LStrip(s) == IF Len(s) > 0 /\ Ch(s, 1) \in Whitespace THEN LStrip(Tail(s)) ELSE s

RECURSIVE RStrip(_)
RStrip(s) ==
    IF Len(s) > 0 /\ Ch(s, Len(s)) \in Whitespace
    THEN RStrip(SubSeq(s, 1, Len(s) - 1)) ELSE s

\* str.strip()
Strip(s) == LStrip(RStrip(s))

\* str.startswith(prefix)
StartsWith(s, p) == Len(s) >= Len(p) /\ SubSeq(s, 1, Len(p)) = p

\* The positions at which sub occurs in s
Occurrences(s, sub) ==
    {i \in 1..(Len(s) - Len(sub) + 1) : SubSeq(s, i, i + Len(sub) - 1) = sub}

\* sub in s
Contains(s, sub) == Occurrences(s, sub) # {}

SetMin(S) == CHOOSE x \in S : \A y \in S : x <= y

SetMax(S) == CHOOSE x \in S : \A y \in S : y <= x

\* ", ".join(seq)
RECURSIVE Join(_, _)
Join(seq, sep) ==
    IF Len(seq) = 0 THEN ""
    ELSE IF Len(seq) = 1 THEN seq[1]
    ELSE seq[1] \o sep \o Join(Tail(seq), sep)

\* str(list_of_str), as in f"{list(df.columns)}"
ListRepr(seq) ==
    "[" \o Join([i \in 1..Len(seq) |-> "'" \o seq[i] \o "'"], ", ") \o "]"

---------------------------------------------------------------------------
(* Case folding, as re.IGNORECASE and str.contains(case=False) apply it *)

UpperLetters ==
    <<"A", "B", "C", "D", "E", "F", "G", "H", "I", "J", "K", "L", "M",
      "N", "O", "P", "Q", "R", "S", "T", "U", "V", "W", "X", "Y", "Z">>

LowerLetters ==
    <<"a", "b", "c", "d", "e", "f", "g", "h", "i", "j", "k", "l", "m",
      "n", "o", "p", "q", "r", "s", "t", "u", "v", "w", "x", "y", "z">>

\* The lower-case letter of each upper-case letter
LowerOf == [c \in Range(UpperLetters) |->
               LowerLetters[CHOOSE i \in 1..26 : UpperLetters[i] = c]]

UpperSet == Range(UpperLetters)

LowerCh(c) == IF c \in UpperSet THEN LowerOf[c] ELSE c

RECURSIVE Lower(_)
Lower(s) == IF Len(s) = 0 THEN "" ELSE LowerCh(Ch(s, 1)) \o Lower(Tail(s))

\* Series.str.contains(pat, case=False, na=False) on one cell; NA is ""
StrContainsNoCase(cell, pat) == cell # "" /\ Contains(Lower(cell), Lower(pat))

---------------------------------------------------------------------------
(* Tables as pandas.read_csv(file_path, comment='#') sees them *)

\* CSVBacktestParser.required_columns
required_columns == <<"Timestamp", "Action", "Symbol", "Price", "PnL">>

\* The 13 columns of an MT5 export
mt5_columns ==
    <<"Time", "Symbol", "Type", "Volume", "Price", "OpenPrice", "ClosePrice",
      "SL", "TP", "Profit", "Balance", "Equity", "Comment">>

\* An empty cell, which read_csv turns into NaN
NA == ""

\* The texts read_csv and pd.to_numeric parse as integers, with their values
NumericValue ==
    ("10" :> 10) @@ ("-5" :> -5) @@ ("0" :> 0) @@ ("7" :> 7) @@ ("100" :> 100)

IntTexts == DOMAIN NumericValue

\* The texts read_csv parses as floats with a fractional part
DecimalTexts == {"1.1"}

\* The texts pd.to_datetime parses, with the day they denote
DateValue == ("2024-01-01" :> 1) @@ ("2024-01-02" :> 2) @@ ("2024-01-03" :> 3)

\* Timestamp.strftime('%Y-%m-%d %H:%M:%S') and str(Timestamp) of a day
FormatDate(day) ==
    LET txt == CHOOSE t \in DOMAIN DateValue : DateValue[t] = day
    IN txt \o " 00:00:00"

\* The dtype read_csv infers for a column from all of its cells
InferDtype(cells) ==
    IF Len(cells) = 0 THEN "object"
    ELSE IF \A i \in 1..Len(cells) : cells[i] \in IntTexts THEN "int64"
    ELSE IF \A i \in 1..Len(cells) :
                cells[i] \in IntTexts \cup DecimalTexts \cup {NA} THEN "float64"
    ELSE "object"

Column(rows, col) == [i \in 1..Len(rows) |-> rows[i][col]]

\* pd.read_csv(file_path, comment='#'): comment lines are not data; a path
\* that cannot be read raises, a file without a header line raises
\* EmptyDataError
read_csv(file) ==
    IF HasKey(file, "failure")
    THEN [raised |-> TRUE, msg |-> file.failure]
    ELSE IF Len(file.header) = 0
    THEN [raised |-> TRUE, msg |-> "No columns to parse from file"]
    ELSE [raised |-> FALSE,
          columns |-> file.header,
          rows |-> file.rows,
          dtype |-> [c \in Range(file.header) |->
                        InferDtype(Column(file.rows, c))],
          file_path |-> file.comments]

\* str(row.get(col, 'Unknown')) for one row of a frame
StrCell(df, row, col) ==
    IF col \notin Range(df.columns) THEN "Unknown"
    ELSE IF row[col] = NA THEN (IF df.dtype[col] = "datetime64" THEN "NaT" ELSE "nan")
    ELSE IF df.dtype[col] = "float64" /\ row[col] \in IntTexts
         THEN row[col] \o ".0"
    ELSE row[col]

---------------------------------------------------------------------------
(* Series arithmetic *)

RatAdd(a, b) == Rat(a.n * b.d + b.n * a.d, a.d * b.d)

DecimalValue == ("1.1" :> Rat(11, 10))

\* The cells pd.to_numeric(errors='coerce') keeps, with their values
IsNumeric(cell) == cell \in IntTexts \cup DecimalTexts

FloatValue(cell) ==
    IF cell \in IntTexts THEN Rat(NumericValue[cell], 1) ELSE DecimalValue[cell]

NumericSeries_FillsZero(df, col) ==
    [i \in 1..Len(df.rows) |->
        IF IsNumeric(df.rows[i][col]) THEN FloatValue(df.rows[i][col]) ELSE Zero]

\* pd.to_numeric(df[col], errors='coerce').dropna()
NumericSeries(df, col) ==
    LET kept == SelectSeq(Column(df.rows, col), IsNumeric)
    IN [i \in 1..Len(kept) |-> FloatValue(kept[i])]

RECURSIVE SeriesSum(_)
SeriesSum(ser) ==
    IF Len(ser) = 0 THEN Zero ELSE RatAdd(ser[1], SeriesSum(Tail(ser)))

SeriesMean(ser) ==
    IF Len(ser) = 0 THEN NaN
    ELSE LET t == SeriesSum(ser) IN Rat(t.n, t.d * Len(ser))

SeriesMax(ser) ==
    IF Len(ser) = 0 THEN NaN
    ELSE CHOOSE x \in Range(ser) : \A y \in Range(ser) : RatLeq(y, x)

SeriesMin(ser) ==
    IF Len(ser) = 0 THEN NaN
    ELSE CHOOSE x \in Range(ser) : \A y \in Range(ser) : RatLeq(x, y)

IsPositive_CountsZero(r) == r.n >= 0

IsPositive(r) == r.n > 0

IsNegative(r) == r.n < 0

\* winning_trades / len(series) * 100 if len(series) > 0 else 0
WinRate(winning, n) == IF n > 0 THEN Rat(winning * 100, n) ELSE Zero

\* The sort order of the symbol texts (Series.mode() returns its modes sorted)
SortedSymbols == <<"EURUSD", "GBPUSD", "USDJPY">>

SymbolRank(sym) == CHOOSE i \in 1..Len(SortedSymbols) : SortedSymbols[i] = sym

\* df['Symbol'].nunique()
NUnique(df, col) == Cardinality(Range(Column(df.rows, col)) \ {NA})

\* df['Symbol'].mode().iloc[0] if len(df['Symbol'].mode()) > 0 else 'Unknown'
ModeOrUnknown(df, col) ==
    LET cells == Column(df.rows, col)
        vals == Range(cells) \ {NA}
        Freq(v) == Cardinality({i \in 1..Len(cells) : cells[i] = v})
        modes == {v \in vals : \A w \in vals : Freq(w) <= Freq(v)}
    IN IF modes = {} THEN "Unknown"
       ELSE CHOOSE v \in modes : \A w \in modes : SymbolRank(v) <= SymbolRank(w)

TimeAnalysis_Coerce(df, col) ==
    LET cells == Column(df.rows, col)
        days == {DateValue[cells[i]] :
                    i \in {j \in 1..Len(cells) : cells[j] \in DOMAIN DateValue}}
    IN [period |-> IF days = {} THEN [start |-> "Unknown", end |-> "Unknown"]
                   ELSE [start |-> FormatDate(SetMin(days)),
                         end |-> FormatDate(SetMax(days))],
        df |-> df]

\* The "Time analysis" block of both statistics routines: the column is
\* replaced in place by pd.to_datetime of it, then min and max are formatted;
\* any exception leaves 'Unknown' for both ends
TimeAnalysis(df, col) ==
    LET cells == Column(df.rows, col)
        unknown == [start |-> "Unknown", end |-> "Unknown"]
        parses == \A i \in 1..Len(cells) : cells[i] \in DOMAIN DateValue \cup {NA}
        days == {DateValue[cells[i]] : i \in {j \in 1..Len(cells) : cells[j] # NA}}
        converted ==
            [df EXCEPT
                !.rows = [i \in 1..Len(df.rows) |->
                            [df.rows[i] EXCEPT ![col] =
                                IF @ = NA THEN NA ELSE FormatDate(DateValue[@])]],
                !.dtype = [@ EXCEPT ![col] = "datetime64"]]
    IN IF ~parses THEN [period |-> unknown, df |-> df]
       ELSE IF days = {} THEN [period |-> unknown, df |-> converted]
       ELSE [period |-> [start |-> FormatDate(SetMin(days)),
                         end |-> FormatDate(SetMax(days))],
             df |-> converted]

---------------------------------------------------------------------------
(* CSVBacktestParser *)

\* How many rows df.tail(limit) keeps by default
RecentLimit == 10

TailRows_Head(rows, limit) == SubSeq(rows, 1, Min2(limit, Len(rows)))

\* df.tail(limit)
TailRows(rows, limit) ==
    SubSeq(rows, Max2(1, Len(rows) - limit + 1), Len(rows))

\* line.split(label)[1]: the text between the first occurrence of the label
\* and the next one (or the end of the line)
SplitSecond(line, label) ==
    LET first == SetMin(Occurrences(line, label))
        rest == SubSeq(line, first + Len(label), Len(line))
        again == Occurrences(rest, label)
    IN IF again = {} THEN rest ELSE SubSeq(rest, 1, SetMin(again) - 1)

\* The labels _extract_backtest_config tests, in the order of its elif chain
ConfigLabels ==
    << <<"Expert Advisor:", "expert_advisor">>,
       <<"Symbol:", "symbol">>,
       <<"Timeframe:", "timeframe">>,
       <<"Period:", "period">>,
       <<"Initial Deposit:", "initial_deposit">>,
       <<"Leverage:", "leverage">>,
       <<"Total Trades:", "total_trades">>,
       <<"Win Rate:", "win_rate">>,
       <<"Net Profit:", "net_profit">>,
       <<"Final Balance:", "final_balance">>,
       <<"Max Drawdown:", "max_drawdown">>,
       <<"Sharpe Ratio:", "sharpe_ratio">> >>

\* One pass of the loop body of _extract_backtest_config
ConfigLine(config, rawline) ==
    LET line == Strip(rawline)
        hits == {k \in 1..Len(ConfigLabels) : Contains(line, ConfigLabels[k][1])}
    IN IF ~StartsWith(line, "#") \/ hits = {} THEN config
       ELSE LET k == SetMin(hits)
            IN (ConfigLabels[k][2] :> Strip(SplitSecond(line, ConfigLabels[k][1])))
                   @@ config

RECURSIVE ConfigLines(_, _)
ConfigLines(config, lines) ==
    IF Len(lines) = 0 THEN config
    ELSE ConfigLines(ConfigLine(config, lines[1]), Tail(lines))

\* The lines of the file are re-read; only those starting with '#' matter
_extract_backtest_config(df) == ConfigLines(EmptyMap, df.file_path)

\* The "PnL analysis" block of _compute_statistics
PnLBlock(ser) ==
    LET winning == Len(SelectSeq(ser, IsPositive))
    IN ("total_pnl" :> SeriesSum(ser))
       @@ ("average_pnl" :> SeriesMean(ser))
       @@ ("max_profit" :> SeriesMax(ser))
       @@ ("max_loss" :> SeriesMin(ser))
       @@ ("winning_trades" :> winning)
       @@ ("losing_trades" :> Len(SelectSeq(ser, IsNegative)))
       @@ ("win_rate" :> WinRate(winning, Len(ser)))

\* The "Symbol analysis" block of both statistics routines
SymbolBlock(df) ==
    IF "Symbol" \in Range(df.columns)
    THEN ("unique_symbols" :> NUnique(df, "Symbol"))
         @@ ("most_traded_symbol" :> ModeOrUnknown(df, "Symbol"))
    ELSE EmptyMap

\* Series.str raises AttributeError unless the column holds strings
StrAccessorRaises(df, col) == df.dtype[col] # "object"

_compute_statistics(df) ==
    IF StrAccessorRaises(df, "Action")
    THEN [raised |-> TRUE,
          msg |-> "Can only use .str accessor with string values!"]
    ELSE LET IsBuy(row) == StrContainsNoCase(row["Action"], "Buy")
             IsSell(row) == StrContainsNoCase(row["Action"], "Sell")
             basic == ("total_trades" :> Len(df.rows))
                      @@ ("buy_trades" :> Len(SelectSeq(df.rows, IsBuy)))
                      @@ ("sell_trades" :> Len(SelectSeq(df.rows, IsSell)))
             pnl == IF "PnL" \in Range(df.columns)
                    THEN PnLBlock(NumericSeries(df, "PnL")) ELSE EmptyMap
             time == TimeAnalysis(df, "Timestamp")
             period == IF "Timestamp" \in Range(df.columns)
                       THEN ("trading_period" :> time.period) ELSE EmptyMap
         IN [raised |-> FALSE,
             stats |-> basic @@ pnl @@ SymbolBlock(df) @@ period,
             df |-> IF "Timestamp" \in Range(df.columns) THEN time.df ELSE df]

\* One record of _get_recent_trades / _get_mt5_recent_trades
TradeRecord(df, row, timeCol, kindCol, pnlCol) ==
    [timestamp |-> StrCell(df, row, timeCol),
     action |-> StrCell(df, row, kindCol),
     symbol |-> StrCell(df, row, "Symbol"),
     price |-> StrCell(df, row, "Price"),
     pnl |-> StrCell(df, row, pnlCol)]

_get_recent_trades(df) ==
    LET recent == TailRows(df.rows, RecentLimit)
    IN [i \in 1..Len(recent) |->
            TradeRecord(df, recent[i], "Timestamp", "Action", "PnL")]

CsvError_PartialStats(msg) ==
    [error |-> msg, stats |-> ("total_trades" :> 0), trades |-> <<>>]

\* The mapping every failing path of the CSV parser returns
CsvError(msg) == [error |-> msg, stats |-> EmptyMap, trades |-> <<>>]

_parse_standard_format(df) ==
    LET missing_cols ==
            SelectSeq(required_columns, LAMBDA c : c \notin Range(df.columns))
        computed == _compute_statistics(df)
    IN IF Len(missing_cols) > 0
       THEN CsvError("Missing required columns: " \o ListRepr(missing_cols))
       ELSE IF computed.raised
       THEN CsvError("Failed to parse CSV file: " \o computed.msg)
       ELSE [stats |-> computed.stats,
             trades |-> _get_recent_trades(computed.df),
             total_trades |-> Len(df.rows),
             columns |-> df.columns]

\* The Type values _parse_mt5_format keeps: df['Type'].isin([...])
TradeTypes == {"buy", "sell", "close"}

IsTradeRow_AnyCase(row) == Lower(row["Type"]) \in TradeTypes

IsTradeRow(row) == row["Type"] \in TradeTypes

\* The "Use config data if available" block of _compute_mt5_statistics
ConfigBlock(config) ==
    IF DOMAIN config = {} THEN EmptyMap
    ELSE ("expert_advisor" :> Get(config, "expert_advisor", "Unknown"))
         @@ ("symbol" :> Get(config, "symbol", "Unknown"))
         @@ ("timeframe" :> Get(config, "timeframe", "Unknown"))
         @@ ("period" :> Get(config, "period", "Unknown"))
         @@ ("initial_deposit" :> Get(config, "initial_deposit", "Unknown"))
         @@ ("leverage" :> Get(config, "leverage", "Unknown"))
         @@ ("config_total_trades" :> Get(config, "total_trades", "Unknown"))
         @@ ("config_win_rate" :> Get(config, "win_rate", "Unknown"))
         @@ ("config_net_profit" :> Get(config, "net_profit", "Unknown"))
         @@ ("config_final_balance" :> Get(config, "final_balance", "Unknown"))
         @@ ("config_max_drawdown" :> Get(config, "max_drawdown", "Unknown"))
         @@ ("config_sharpe_ratio" :> Get(config, "sharpe_ratio", "Unknown"))

ZeroPnLBlock_OfEmptySeries == PnLBlock(<<>>)

\* The statistics _parse_mt5_format returns for a table without trade rows,
\* and the "else" branch of the profit analysis
ZeroPnLBlock ==
    ("total_pnl" :> Zero)
    @@ ("average_pnl" :> Zero)
    @@ ("max_profit" :> Zero)
    @@ ("max_loss" :> Zero)
    @@ ("winning_trades" :> 0)
    @@ ("losing_trades" :> 0)
    @@ ("win_rate" :> Zero)

\* The "Profit analysis" block of _compute_mt5_statistics
ProfitBlock(df) ==
    IF "Profit" \notin Range(df.columns) THEN EmptyMap
    ELSE LET ser == NumericSeries(df, "Profit")
         IN IF Len(ser) > 0 THEN PnLBlock(ser) ELSE ZeroPnLBlock

\* df is the frame of trade rows; every Type cell of it is a string
_compute_mt5_statistics(df, config) ==
    LET IsBuy(row) == StrContainsNoCase(row["Type"], "buy")
        IsSell(row) == StrContainsNoCase(row["Type"], "sell")
        IsClose(row) == StrContainsNoCase(row["Type"], "close")
        basic == ("total_trades" :> Len(df.rows))
                 @@ ("buy_trades" :> Len(SelectSeq(df.rows, IsBuy)))
                 @@ ("sell_trades" :> Len(SelectSeq(df.rows, IsSell)))
                 @@ ("close_trades" :> Len(SelectSeq(df.rows, IsClose)))
        time == TimeAnalysis(df, "Time")
    IN [stats |-> basic @@ ConfigBlock(config) @@ ProfitBlock(df)
                    @@ SymbolBlock(df) @@ ("trading_period" :> time.period),
        df |-> time.df]

_get_mt5_recent_trades(df) ==
    LET recent == TailRows(df.rows, RecentLimit)
    IN [i \in 1..Len(recent) |->
            TradeRecord(df, recent[i], "Time", "Type", "Profit")]

_parse_mt5_format(df) ==
    LET trade_df == [df EXCEPT !.rows = SelectSeq(df.rows, IsTradeRow)]
        config == _extract_backtest_config(df)
        computed == _compute_mt5_statistics(trade_df, config)
    IN IF Len(trade_df.rows) = 0
       THEN [stats |-> ("total_trades" :> 0) @@ ZeroPnLBlock,
             trades |-> <<>>,
             total_trades |-> 0,
             columns |-> df.columns]
       ELSE [stats |-> computed.stats,
             trades |-> _get_mt5_recent_trades(computed.df),
             total_trades |-> Len(trade_df.rows),
             columns |-> df.columns,
             config |-> config]

parse_csv_file(file) ==
    LET df == read_csv(file)
    IN IF df.raised
       THEN CsvError("Failed to parse CSV file: " \o df.msg)
       ELSE IF "Time" \in Range(df.columns) /\ "Type" \in Range(df.columns)
       THEN _parse_mt5_format(df)
       ELSE IF "Timestamp" \in Range(df.columns) /\ "Action" \in Range(df.columns)
       THEN _parse_standard_format(df)
       ELSE CsvError("Unknown CSV format. Available columns: " \o ListRepr(df.columns))

---------------------------------------------------------------------------
(* Regular expressions, matched as Python's re does: leftmost match, greedy
   quantifiers, backtracking in the order of the pattern.  A pattern is a
   sequence of items:
     lit    a literal text (case-folded under re.IGNORECASE)
     chars  a character class (negated or not) repeated min..max times
     open / close   the start / end of a capturing group
     star   a non-capturing group repeated zero or more times *)

\* The upper-case letter of each lower-case letter
UpperOf == [c \in Range(LowerLetters) |->
               UpperLetters[CHOOSE i \in 1..26 : LowerLetters[i] = c]]

LowerSet == Range(LowerLetters)

UpperCh(c) == IF c \in LowerSet THEN UpperOf[c] ELSE c

Digits == {"0", "1", "2", "3", "4", "5", "6", "7", "8", "9"}

\* \w
WordChars == Range(UpperLetters) \cup Range(LowerLetters) \cup Digits \cup {"_"}

\* [A-Za-z0-9_\s]
NameChars == WordChars \cup Whitespace

Unbounded == -1

Lit(text) == [kind |-> "lit", text |-> text]

OneOf(set, min, max) ==
    [kind |-> "chars", neg |-> FALSE, set |-> set, min |-> min, max |-> max]

NoneOf(set, min, max) ==
    [kind |-> "chars", neg |-> TRUE, set |-> set, min |-> min, max |-> max]

Open(g) == [kind |-> "open", group |-> g]

Close(g) == [kind |-> "close", group |-> g]

Star(sub) == [kind |-> "star", sub |-> sub]

\* Whether a character belongs to the class of a chars item
InClass(item, c, ignorecase) ==
    LET in == \/ c \in item.set
              \/ ignorecase /\ (LowerCh(c) \in item.set \/ UpperCh(c) \in item.set)
    IN IF item.neg THEN ~in ELSE in

\* Whether a literal text stands at a position
LitAt(text, lit, pos, ignorecase) ==
    /\ pos + Len(lit) - 1 <= Len(text)
    /\ \A i \in 1..Len(lit) :
           IF ignorecase
           THEN LowerCh(Ch(text, pos + i - 1)) = LowerCh(Ch(lit, i))
           ELSE Ch(text, pos + i - 1) = Ch(lit, i)

\* How many characters from a position on belong to the class, up to max
RECURSIVE RunLength(_, _, _, _, _)
RunLength(text, item, pos, ignorecase, taken) ==
    IF \/ pos + taken > Len(text)
       \/ taken = item.max
       \/ ~InClass(item, Ch(text, pos + taken), ignorecase)
    THEN taken
    ELSE RunLength(text, item, pos, ignorecase, taken + 1)

NoMatch == [ok |-> FALSE]

RECURSIVE MatchHere(_, _, _, _)
RECURSIVE TryCount(_, _, _, _, _)

\* The first way, in backtracking order, in which the items match at pos
MatchHere(text, items, pos, ignorecase) ==
    IF Len(items) = 0 THEN [ok |-> TRUE, end |-> pos, marks |-> EmptyMap]
    ELSE LET item == items[1]
             rest == Tail(items)
         IN CASE item.kind = "lit" ->
                    IF LitAt(text, item.text, pos, ignorecase)
                    THEN MatchHere(text, rest, pos + Len(item.text), ignorecase)
                    ELSE NoMatch
              [] item.kind = "chars" ->
                    TryCount(text, items, pos,
                             RunLength(text, item, pos, ignorecase, 0), ignorecase)
              [] item.kind \in {"open", "close"} ->
                    LET m == MatchHere(text, rest, pos, ignorecase)
                    IN IF m.ok
                       THEN [m EXCEPT !.marks = (<<item.kind, item.group>> :> pos) @@ @]
                       ELSE NoMatch
              [] item.kind = "star" ->
                    LET again == MatchHere(text, item.sub \o items, pos, ignorecase)
                    IN IF again.ok THEN again
                       ELSE MatchHere(text, rest, pos, ignorecase)

\* A chars item taking n characters, then n - 1, ... down to its minimum
TryCount(text, items, pos, n, ignorecase) ==
    IF n < items[1].min THEN NoMatch
    ELSE LET m == MatchHere(text, Tail(items), pos + n, ignorecase)
         IN IF m.ok THEN m
            ELSE TryCount(text, items, pos, n - 1, ignorecase)

\* m.group(g)
Group(text, m, g) ==
    SubSeq(text, m.marks[<<"open", g>>], m.marks[<<"close", g>>] - 1)

\* The leftmost position from i on at which the items match, or 0
RECURSIVE FirstStart(_, _, _, _)
FirstStart(text, items, i, ignorecase) ==
    IF i > Len(text) + 1 THEN 0
    ELSE IF MatchHere(text, items, i, ignorecase).ok THEN i
    ELSE FirstStart(text, items, i + 1, ignorecase)

\* The characters a match can begin with when the items begin with a
\* literal; {} when they begin otherwise
Heads(items, ignorecase) ==
    IF Len(items) > 0 /\ items[1].kind = "lit" /\ Len(items[1].text) > 0
    THEN LET c == Ch(items[1].text, 1)
         IN IF ignorecase THEN {c, LowerCh(c), UpperCh(c)} ELSE {c}
    ELSE {}

\* re.search(pattern, text[from:]): the match at the leftmost position
Search(text, items, from, ignorecase) ==
    LET heads == Heads(items, ignorecase)
        starts == {i \in {j \in from..Len(text) : Ch(text, j) \in heads} :
                      MatchHere(text, items, i, ignorecase).ok}
        start == IF heads = {} THEN FirstStart(text, items, from, ignorecase)
                 ELSE IF starts = {} THEN 0
                 ELSE SetMin(starts)
        m == MatchHere(text, items, start, ignorecase)
    IN IF start = 0 THEN NoMatch
       ELSE [ok |-> TRUE, start |-> start, end |-> m.end, marks |-> m.marks]

\* re.findall(pattern, text): the successive non-overlapping matches
RECURSIVE FindAll(_, _, _)
FindAll(text, items, from) ==
    LET m == Search(text, items, from, FALSE)
    IN IF ~m.ok THEN <<>>
       ELSE <<m>> \o FindAll(text, items, IF m.end > m.start THEN m.end ELSE m.end + 1)

---------------------------------------------------------------------------
(* MQL5Parser *)

\* MQL5Parser.keywords
keywords ==
    {"OnTick", "OnInit", "OnDeinit", "OrderSend", "OrderModify", "OrderClose",
     "iMA", "iRSI", "iMACD", "iStochastic", "iBands", "iATR", "iCCI",
     "Buy", "Sell", "StopLoss", "TakeProfit", "LotSize", "MagicNumber"}

Quotes == {"\"", "'"}

\* The patterns of _extract_strategy_name, in the order they are tried
NamePatterns ==
    << \* string\s+StrategyName\s*=\s*["']([^"']+)["']
       <<Lit("string"), OneOf(Whitespace, 1, Unbounded), Lit("StrategyName"),
         OneOf(Whitespace, 0, Unbounded), Lit("="),
         OneOf(Whitespace, 0, Unbounded), OneOf(Quotes, 1, 1),
         Open(1), NoneOf(Quotes, 1, Unbounded), Close(1), OneOf(Quotes, 1, 1)>>,
       \* //\s*Strategy:\s*([^\n]+)
       <<Lit("//"), OneOf(Whitespace, 0, Unbounded), Lit("Strategy:"),
         OneOf(Whitespace, 0, Unbounded),
         Open(1), NoneOf({"\n"}, 1, Unbounded), Close(1)>>,
       \* #property\s+description\s*["']([^"']+)["']
       <<Lit("#property"), OneOf(Whitespace, 1, Unbounded), Lit("description"),
         OneOf(Whitespace, 0, Unbounded), OneOf(Quotes, 1, 1),
         Open(1), NoneOf(Quotes, 1, Unbounded), Close(1), OneOf(Quotes, 1, 1)>>,
       \* //\|\s*([A-Za-z0-9_\s]+)\.mq5
       <<Lit("//|"), OneOf(Whitespace, 0, Unbounded),
         Open(1), OneOf(NameChars, 1, Unbounded), Close(1), Lit(".mq5")>>,
       \* //\|\s*([A-Za-z0-9_\s]+)\s*-\s*[A-Za-z0-9_\s]+
       <<Lit("//|"), OneOf(Whitespace, 0, Unbounded),
         Open(1), OneOf(NameChars, 1, Unbounded), Close(1),
         OneOf(Whitespace, 0, Unbounded), Lit("-"),
         OneOf(Whitespace, 0, Unbounded), OneOf(NameChars, 1, Unbounded)>>,
       \* //\s*([A-Za-z0-9_\s]+)\.mq5\s*-\s*[A-Za-z0-9_\s]+
       <<Lit("//"), OneOf(Whitespace, 0, Unbounded),
         Open(1), OneOf(NameChars, 1, Unbounded), Close(1), Lit(".mq5"),
         OneOf(Whitespace, 0, Unbounded), Lit("-"),
         OneOf(Whitespace, 0, Unbounded), OneOf(NameChars, 1, Unbounded)>> >>

\* `if name and name != "Unknown"`
AcceptName_Any(name) == TRUE

AcceptName(name) == name # "" /\ name # "Unknown"

\* The loop of _extract_strategy_name from the k-th pattern on, then the
\* substring checks and the default
RECURSIVE NameFrom(_, _)
NameFrom(content, k) ==
    IF k > Len(NamePatterns)
    THEN IF Contains(content, "VolumeBreakout") THEN "VolumeBreakoutEA"
         ELSE IF Contains(content, "Claude_MTX") THEN "Claude_MTX_Strategy"
         ELSE "Trading_Strategy"
    ELSE LET match == Search(content, NamePatterns[k], 1, TRUE)
             name == Strip(Group(content, match, 1))
         IN IF match.ok /\ AcceptName(name) THEN name
            ELSE NameFrom(content, k + 1)

_extract_strategy_name(content) == NameFrom(content, 1)

\* (\w+)\s+(\w+)\s*\([^)]*\)\s*\{
function_pattern ==
    <<Open(1), OneOf(WordChars, 1, Unbounded), Close(1),
      OneOf(Whitespace, 1, Unbounded),
      Open(2), OneOf(WordChars, 1, Unbounded), Close(2),
      OneOf(Whitespace, 0, Unbounded), Lit("("), NoneOf({")"}, 0, Unbounded),
      Lit(")"), OneOf(Whitespace, 0, Unbounded), Lit("{")>>

_extract_functions(content) ==
    LET matches == FindAll(content, function_pattern, 1)
        Kept(m) == \/ Group(content, m, 2) \in keywords
                   \/ StartsWith(Group(content, m, 2), "On")
        kept == SelectSeq(matches, Kept)
    IN [i \in 1..Len(kept) |->
           Group(content, kept[i], 1) \o " " \o Group(content, kept[i], 2) \o "()"]

\* void\s+OnTick\s*\(\)\s*\{([^}]+(?:\{[^}]*\}[^}]*)*)\}
on_tick_pattern ==
    <<Lit("void"), OneOf(Whitespace, 1, Unbounded), Lit("OnTick"),
      OneOf(Whitespace, 0, Unbounded), Lit("()"),
      OneOf(Whitespace, 0, Unbounded), Lit("{"),
      Open(1), NoneOf({"}"}, 1, Unbounded),
      Star(<<Lit("{"), NoneOf({"}"}, 0, Unbounded), Lit("}"),
             NoneOf({"}"}, 0, Unbounded)>>),
      Close(1), Lit("}")>>

\* re.sub(r'//.*?\n', '\n', logic): every "//" and what follows it on its
\* line is removed, the line end stays
RECURSIVE StripLineComments(_)
StripLineComments(logic) ==
    LET starts == {i \in Occurrences(logic, "//") :
                      \E j \in (i + 2)..Len(logic) : Ch(logic, j) = "\n"}
    IN IF starts = {} THEN logic
       ELSE LET i == SetMin(starts)
                j == SetMin({j \in (i + 2)..Len(logic) : Ch(logic, j) = "\n"})
            IN SubSeq(logic, 1, i - 1) \o "\n"
                  \o StripLineComments(SubSeq(logic, j + 1, Len(logic)))

\* re.sub(r'\s+', ' ', logic): every run of whitespace becomes one space
RECURSIVE CollapseWhitespace(_)
CollapseWhitespace(logic) ==
    IF Len(logic) = 0 THEN ""
    ELSE IF Ch(logic, 1) \in Whitespace
         THEN " " \o CollapseWhitespace(LStrip(logic))
         ELSE Ch(logic, 1) \o CollapseWhitespace(Tail(logic))

\* How many characters of the handler body are kept
LogicLimit == 1000

_extract_trading_logic(content) ==
    LET match == Search(content, on_tick_pattern, 1, FALSE)
        logic == CollapseWhitespace(StripLineComments(Group(content, match, 1)))
        stripped == Strip(logic)
    IN IF match.ok
       THEN SubSeq(stripped, 1, Min2(LogicLimit, Len(stripped)))
       ELSE "Trading logic not found"

\* input\s+(\w+)\s+(\w+)\s*=\s*([^;]+);
param_pattern_NoSpaceBeforeEquals ==
    <<Lit("input"), OneOf(Whitespace, 1, Unbounded),
      Open(1), OneOf(WordChars, 1, Unbounded), Close(1),
      OneOf(Whitespace, 1, Unbounded),
      Open(2), OneOf(WordChars, 1, Unbounded), Close(2),
      Lit("="), OneOf(Whitespace, 0, Unbounded),
      Open(3), NoneOf({";"}, 1, Unbounded), Close(3), Lit(";")>>

param_pattern ==
    <<Lit("input"), OneOf(Whitespace, 1, Unbounded),
      Open(1), OneOf(WordChars, 1, Unbounded), Close(1),
      OneOf(Whitespace, 1, Unbounded),
      Open(2), OneOf(WordChars, 1, Unbounded), Close(2),
      OneOf(Whitespace, 0, Unbounded), Lit("="), OneOf(Whitespace, 0, Unbounded),
      Open(3), NoneOf({";"}, 1, Unbounded), Close(3), Lit(";")>>

_extract_parameters(content) ==
    LET matches == FindAll(content, param_pattern, 1)
    IN [i \in 1..Len(matches) |->
           Group(content, matches[i], 1) \o " " \o Group(content, matches[i], 2)
              \o " = " \o Strip(Group(content, matches[i], 3))]

\* The indicator calls _extract_indicators tests for, each as name\s*\(
indicator_names ==
    <<"iMA", "iRSI", "iMACD", "iStochastic", "iBands", "iATR", "iCCI">>

\* The indicators found; list(set(...)) returns them in no particular order
IndicatorsFound(content) ==
    {indicator_names[k] : k \in
        {j \in 1..Len(indicator_names) :
            Search(content,
                   <<Lit(indicator_names[j]), OneOf(Whitespace, 0, Unbounded),
                     Lit("(")>>, 1, TRUE).ok}}

\* The orders in which a list may hold the elements of a set
Orderings(set) ==
    {seq \in [1..Cardinality(set) -> set] : Range(seq) = set}

\* How many characters of the source are kept as raw_content
RawLimit == 5000

Mq5ParseError_ErrorOnly(msg) == [error |-> "Failed to parse MQL5 file: " \o msg]

\* The mapping the except block of parse_mq5_file returns
Mq5ParseError(msg) ==
    [error |-> "Failed to parse MQL5 file: " \o msg,
     strategy_name |-> "Unknown",
     functions |-> <<>>,
     trading_logic |-> "",
     parameters |-> <<>>,
     indicators |-> <<>>,
     raw_content |-> ""]

\* file is what open(file_path).read() gives: a text, or an exception.
\* The results the call may return: one for each order of the indicators
parse_mq5_file(file) ==
    IF ~file.readable
    THEN {Mq5ParseError(file.msg)}
    ELSE LET content == file.content
             strategy_name == _extract_strategy_name(content)
             functions == _extract_functions(content)
             trading_logic == _extract_trading_logic(content)
             parameters == _extract_parameters(content)
         IN {[strategy_name |-> strategy_name,
              functions |-> functions,
              trading_logic |-> trading_logic,
              parameters |-> parameters,
              indicators |-> indicators,
              raw_content |-> SubSeq(content, 1, Min2(RawLimit, Len(content)))] :
                 indicators \in Orderings(IndicatorsFound(content))}

---------------------------------------------------------------------------
(* create_summary *)

\* How many of the trades create_summary lists: csv_data.get('trades', [])[:5]
SummaryTrades == 5

ConfigOr_Computed(config, key, computed) == computed

\* config.get(key, computed)
ConfigOr(config, key, computed) ==
    IF HasKey(config, key) THEN config[key] ELSE computed

\* The "STRATEGY CODE ANALYSIS" lines
StrategySection(mq5) ==
    "STRATEGY CODE ANALYSIS:\n"
    \o "Strategy Name: " \o Get(mq5, "strategy_name", "Unknown") \o "\n"
    \o "Functions Found: " \o Join(Get(mq5, "functions", <<>>), ", ") \o "\n"
    \o "Indicators Used: " \o Join(Get(mq5, "indicators", <<>>), ", ") \o "\n"
    \o "Parameters: " \o Join(Get(mq5, "parameters", <<>>), ", ") \o "\n"
    \o "Trading Logic: " \o Get(mq5, "trading_logic", "Not found") \o "\n\n"

\* The "BACKTEST CONFIGURATION" lines, emitted for a non-empty config only
ConfigSection(config) ==
    IF DOMAIN config = {} THEN ""
    ELSE "BACKTEST CONFIGURATION:\n"
         \o "Expert Advisor: " \o Get(config, "expert_advisor", "Unknown") \o "\n"
         \o "Symbol: " \o Get(config, "symbol", "Unknown") \o "\n"
         \o "Timeframe: " \o Get(config, "timeframe", "Unknown") \o "\n"
         \o "Period: " \o Get(config, "period", "Unknown") \o "\n"
         \o "Initial Deposit: " \o Get(config, "initial_deposit", "Unknown") \o "\n"
         \o "Leverage: " \o Get(config, "leverage", "Unknown") \o "\n\n"

\* The "BACKTEST RESULTS" lines
ResultsSection(config, stats) ==
    "BACKTEST RESULTS:\n"
    \o (IF DOMAIN config # {}
        THEN "Total Trades: "
                \o ConfigOr(config, "total_trades",
                            ToString(Get(stats, "total_trades", 0))) \o "\n"
             \o "Win Rate: "
                \o ConfigOr(config, "win_rate",
                            Fmt2(Get(stats, "win_rate", Zero)) \o "%") \o "\n"
             \o "Net Profit: "
                \o ConfigOr(config, "net_profit",
                            Fmt2(Get(stats, "total_pnl", Zero))) \o "\n"
             \o "Final Balance: " \o Get(config, "final_balance", "Unknown") \o "\n"
             \o "Max Drawdown: " \o Get(config, "max_drawdown", "Unknown") \o "\n"
             \o "Sharpe Ratio: " \o Get(config, "sharpe_ratio", "Unknown") \o "\n"
        ELSE "Total Trades: " \o ToString(Get(stats, "total_trades", 0)) \o "\n"
             \o "Win Rate: " \o Fmt2(Get(stats, "win_rate", Zero)) \o "%\n"
             \o "Total PnL: " \o Fmt2(Get(stats, "total_pnl", Zero)) \o "\n"
             \o "Average PnL: " \o Fmt2(Get(stats, "average_pnl", Zero)) \o "\n"
             \o "Winning Trades: "
                \o ToString(Get(stats, "winning_trades", 0)) \o "\n"
             \o "Losing Trades: "
                \o ToString(Get(stats, "losing_trades", 0)) \o "\n"
             \o "Max Profit: " \o Fmt2(Get(stats, "max_profit", Zero)) \o "\n"
             \o "Max Loss: " \o Fmt2(Get(stats, "max_loss", Zero)) \o "\n")

\* The trading-period and symbol lines
PeriodSection(stats) ==
    (IF HasKey(stats, "trading_period")
     THEN "Trading Period: "
             \o Get(stats["trading_period"], "start", "Unknown") \o " to "
             \o Get(stats["trading_period"], "end", "Unknown") \o "\n"
     ELSE "")
    \o "Symbols Traded: " \o ToString(Get(stats, "unique_symbols", 0)) \o "\n"
    \o "Most Traded Symbol: "
       \o Get(stats, "most_traded_symbol", "Unknown") \o "\n\n"

TradeLine_BlankDefaults(i, trade) ==
    ToString(i) \o ". " \o Get(trade, "timestamp", "")
    \o " - " \o Get(trade, "action", "")
    \o " " \o Get(trade, "symbol", "")
    \o " @ " \o Get(trade, "price", "")
    \o " (PnL: " \o Get(trade, "pnl", "") \o ")\n"

\* One line of the recent-trades enumeration
TradeLine(i, trade) ==
    ToString(i) \o ". " \o Get(trade, "timestamp", "Unknown")
    \o " - " \o Get(trade, "action", "Unknown")
    \o " " \o Get(trade, "symbol", "Unknown")
    \o " @ " \o Get(trade, "price", "Unknown")
    \o " (PnL: " \o Get(trade, "pnl", "Unknown") \o ")\n"

\* The "RECENT TRADES" lines: the first five of the trades handed in
TradesSection(trades) ==
    LET recent_trades == SubSeq(trades, 1, Min2(SummaryTrades, Len(trades)))
    IN "RECENT TRADES (Last 5):\n"
       \o Join([i \in 1..Len(recent_trades) |-> TradeLine(i, recent_trades[i])], "")

create_summary(mq5, csv) ==
    LET config == Get(csv, "config", EmptyMap)
        stats == Get(csv, "stats", EmptyMap)
    IN "=== TRADING STRATEGY ANALYSIS SUMMARY ===\n\n"
       \o StrategySection(mq5)
       \o ConfigSection(config)
       \o ResultsSection(config, stats)
       \o PeriodSection(stats)
       \o TradesSection(Get(csv, "trades", <<>>))

---------------------------------------------------------------------------
(* The tables the parser is run on *)

SeqsUpTo(S, n) == UNION {[1..k -> S] : k \in 0..n}

\* Which cell of a row a column shows; columns the parser never reads hold "0"
ColumnRole ==
    ("Timestamp" :> "time") @@ ("Time" :> "time") @@ ("Date" :> "time")
    @@ ("Action" :> "kind") @@ ("Type" :> "kind") @@ ("Side" :> "kind")
    @@ ("Symbol" :> "symbol") @@ ("Price" :> "price")
    @@ ("PnL" :> "pnl") @@ ("Profit" :> "pnl")

RowOf(header, cells) ==
    [c \in Range(header) |->
        IF c \in DOMAIN ColumnRole THEN cells[ColumnRole[c]] ELSE "0"]

Cells(time, kind, symbol, price, pnl) ==
    [time |-> time, kind |-> kind, symbol |-> symbol, price |-> price, pnl |-> pnl]

StandardCells ==
    {Cells("2024-01-01", "Buy", "EURUSD", "1.1", "10"),
     Cells("2024-01-02", "Sell", "EURUSD", "1.1", "-5"),
     Cells("2024-01-03", "SELL", "GBPUSD", "1.1", "0"),
     Cells("soon", "Buy", "GBPUSD", "1.1", "pending"),
     Cells("2024-01-02", NA, "EURUSD", "1.1", NA)}

Mt5Cells ==
    {Cells("2024-01-01", "buy", "EURUSD", "1.1", "10"),
     Cells("2024-01-02", "sell", "EURUSD", "1.1", "-5"),
     Cells("2024-01-03", "close", "GBPUSD", "1.1", "0"),
     Cells("soon", "buy", "GBPUSD", "1.1", "pending"),
     Cells("2024-01-01", "deposit", "USDJPY", NA, "100"),
     Cells("2024-01-03", "summary", NA, NA, NA),
     Cells("2024-01-03", "BUY", "USDJPY", "1.1", "7")}

StandardHeaders ==
    {required_columns,
     <<"Timestamp", "Action", "Symbol", "Price">>,
     <<"Timestamp", "Action">>}

Mt5Headers ==
    {mt5_columns,
     <<"Time", "Symbol", "Type", "Volume", "Price">>,
     <<"Time", "Type">>}

OtherHeaders ==
    {<<"Date", "Side", "Symbol", "Price", "PnL">>,
     <<"Timestamp", "Symbol", "Price", "PnL">>,
     <<>>}

Headers == StandardHeaders \cup Mt5Headers \cup OtherHeaders

CellsFor(header) ==
    IF header \in Mt5Headers THEN Mt5Cells
    ELSE IF header = <<>> THEN {}
    ELSE StandardCells

CommentLines ==
    {"# Net Profit: 1234.56", "# Symbol: EURUSD", "# Total Trades: 7",
     "# Period: 2024 Symbol: EURUSD Symbol: GBPUSD"}

\* The tables of one header: without comment lines, and with some
TablesOf(h) ==
    LET rows == {RowOf(h, c) : c \in CellsFor(h)}
    IN {[comments |-> <<>>, header |-> h, rows |-> rs] :
           rs \in SeqsUpTo(rows, MaxRows)}
       \cup {[comments |-> cs, header |-> h, rows |-> rs] :
                 cs \in SeqsUpTo(CommentLines, MaxComments),
                 rs \in SeqsUpTo(rows, MaxCommentedRows)}

\* str(e) of what open(...) and file.read() raise: a missing file, a file
\* that may not be read, bytes that are not UTF-8
ReadFailures ==
    {"[Errno 2] No such file or directory",
     "[Errno 13] Permission denied",
     "'utf-8' codec can't decode byte 0xff in position 0: invalid start byte"}

\* The paths that cannot be read as a table
UnreadableTables ==
    {[comments |-> <<>>, header |-> <<>>, rows |-> <<>>, failure |-> msg] :
        msg \in ReadFailures}

\* The rows every long table starts with: as many as df.tail keeps
LongCells(h) ==
    IF h \in Mt5Headers
    THEN <<Cells("2024-01-01", "buy", "EURUSD", "1.1", "10"),
           Cells("2024-01-02", "sell", "EURUSD", "1.1", "-5"),
           Cells("2024-01-03", "close", "GBPUSD", "1.1", "0")>>
    ELSE <<Cells("2024-01-01", "Buy", "EURUSD", "1.1", "10"),
           Cells("2024-01-02", "Sell", "EURUSD", "1.1", "-5"),
           Cells("2024-01-03", "SELL", "GBPUSD", "1.1", "0")>>

LongPattern == <<1, 2, 3, 1, 1, 2, 3, 3, 2, 1>>

\* The rows a long table may end with
ExtraCells(h) ==
    IF h \in Mt5Headers
    THEN {Cells("2024-01-01", "buy", "EURUSD", "1.1", "10"),
          Cells("soon", "buy", "GBPUSD", "1.1", "pending"),
          Cells("2024-01-01", "deposit", "USDJPY", NA, "100")}
    ELSE {Cells("2024-01-01", "Buy", "EURUSD", "1.1", "10"),
          Cells("soon", "Buy", "GBPUSD", "1.1", "pending"),
          Cells("2024-01-02", "Sell to buy", "EURUSD", "1.1", "-5")}

\* Tables of about RecentLimit rows, of which df.tail(limit) drops some
LongTablesOf(h) ==
    {[comments |-> <<>>, header |-> h,
      rows |-> [i \in 1..Len(LongPattern) |->
                   RowOf(h, LongCells(h)[LongPattern[i]])] \o extra] :
        extra \in SeqsUpTo({RowOf(h, c) : c \in ExtraCells(h)}, MaxExtraRows)}

LongTables == LongTablesOf(required_columns) \cup LongTablesOf(mt5_columns)

CsvFiles ==
    UNION {TablesOf(h) : h \in Headers} \cup UnreadableTables \cup LongTables

---------------------------------------------------------------------------
(* The mappings create_summary is run on: any key may be absent *)

Mq5Datas ==
    {EmptyMap,
     [strategy_name |-> "MyEA",
      functions |-> <<"void OnTick()", "int OnInit()">>,
      trading_logic |-> "if(fast > slow) Buy();",
      parameters |-> <<"double Lots = 0.1">>,
      indicators |-> <<"iMA">>,
      raw_content |-> "input double Lots = 0.1;"],
     [error |-> "Failed to parse MQL5 file: [Errno 2] No such file or directory",
      strategy_name |-> "Unknown",
      functions |-> <<>>,
      trading_logic |-> "",
      parameters |-> <<>>,
      indicators |-> <<>>,
      raw_content |-> ""]}

ConfigChoices ==
    {EmptyMap,
     [net_profit |-> "1234.56"],
     [net_profit |-> ""],
     [total_trades |-> "7", win_rate |-> "55%"],
     [net_profit |-> "5.00", total_trades |-> "7", win_rate |-> "55%",
      expert_advisor |-> "MyEA"],
     [symbol |-> "EURUSD"]}

StatsChoices ==
    {EmptyMap,
     [total_trades |-> 2],
     [total_trades |-> 2, buy_trades |-> 1, sell_trades |-> 1,
      total_pnl |-> Rat(5, 1), average_pnl |-> Rat(5, 2),
      max_profit |-> Rat(10, 1), max_loss |-> Rat(-5, 1),
      winning_trades |-> 1, losing_trades |-> 1, win_rate |-> Rat(50, 1),
      unique_symbols |-> 1, most_traded_symbol |-> "EURUSD",
      trading_period |-> [start |-> "2024-01-01 00:00:00",
                          end |-> "2024-01-02 00:00:00"]],
     [total_trades |-> 3, buy_trades |-> 3, sell_trades |-> 0,
      total_pnl |-> Zero, average_pnl |-> NaN,
      max_profit |-> NaN, max_loss |-> NaN,
      winning_trades |-> 0, losing_trades |-> 0, win_rate |-> Zero,
      unique_symbols |-> 2, most_traded_symbol |-> "GBPUSD",
      trading_period |-> [start |-> "Unknown", end |-> "Unknown"]]}

Trade(i) ==
    [timestamp |-> FormatDate(1), action |-> "Buy", symbol |-> "EURUSD",
     price |-> "1.1", pnl |-> ToString(i)]

TradesChoices ==
    {<<>>,
     <<Trade(1)>>,
     [i \in 1..(SummaryTrades + 1) |-> Trade(i)]}

\* A key of csv_data that is either absent or holds one of the choices
Optional(key, choices) == {EmptyMap} \cup {key :> c : c \in choices}

CsvDatas ==
    {c @@ st @@ tr :
        c \in Optional("config", ConfigChoices),
        st \in Optional("stats", StatsChoices),
        tr \in Optional("trades", TradesChoices)}

\* A mapping without the keys outside a set
Restrict(m, keys) == [k \in DOMAIN m \cap keys |-> m[k]]

FullMq5 ==
    [strategy_name |-> "MyEA",
     functions |-> <<"void OnTick()", "int OnInit()">>,
     trading_logic |-> "if(fast > slow) Buy();",
     parameters |-> <<"double Lots = 0.1">>,
     indicators |-> <<"iMA">>,
     raw_content |-> "input double Lots = 0.1;"]

FullStats ==
    [total_trades |-> 2, buy_trades |-> 1, sell_trades |-> 1,
     total_pnl |-> Rat(5, 1), average_pnl |-> Rat(5, 2),
     max_profit |-> Rat(10, 1), max_loss |-> Rat(-5, 1),
     winning_trades |-> 1, losing_trades |-> 1, win_rate |-> Rat(50, 1),
     unique_symbols |-> 1, most_traded_symbol |-> "EURUSD",
     trading_period |-> [start |-> "2024-01-01 00:00:00",
                         end |-> "2024-01-02 00:00:00"]]

\* A config with every key _extract_backtest_config can store
FullConfig == [k \in {ConfigLabels[i][2] : i \in 1..Len(ConfigLabels)} |-> "7"]

\* Arguments from which keys are absent: any keys of mq5_data, one key or
\* all keys but one of stats and of config, the ends of trading_period, any
\* keys of a trade record; and the error results of the two parsers
PartialArgs ==
    {<<Restrict(FullMq5, ks), EmptyMap>> : ks \in SUBSET DOMAIN FullMq5}
    \cup {<<EmptyMap, [stats |-> Restrict(FullStats, ks)]>> :
              ks \in {{k} : k \in DOMAIN FullStats}
                       \cup {DOMAIN FullStats \ {k} : k \in DOMAIN FullStats}}
    \cup {<<EmptyMap, [config |-> Restrict(FullConfig, ks)]>> :
              ks \in {{k} : k \in DOMAIN FullConfig}
                       \cup {DOMAIN FullConfig \ {k} : k \in DOMAIN FullConfig}}
    \cup {<<EmptyMap, [stats |-> [trading_period |-> Restrict(p, ks)]]>> :
              p \in {FullStats.trading_period}, ks \in SUBSET {"start", "end"}}
    \cup {<<EmptyMap, [trades |-> <<Restrict(Trade(1), ks), Trade(2)>>]>> :
              ks \in SUBSET DOMAIN Trade(1)}
    \cup {<<Mq5ParseError(msg), CsvError("Failed to parse CSV file: " \o msg)>> :
              msg \in ReadFailures}

\* The pairs of arguments create_summary is called on
\* The results of parse_csv_file on short and on long tables, as the
\* endpoints hand them to create_summary
ParsedArgs ==
    {<<FullMq5, parse_csv_file(f)>> :
        f \in LongTables
               \cup {g \in TablesOf(required_columns) \cup TablesOf(mt5_columns) :
                        Len(g.rows) <= 1}}

SummaryArgs == (Mq5Datas \X CsvDatas) \cup PartialArgs \cup ParsedArgs

---------------------------------------------------------------------------
(* The source texts parse_mq5_file is run on: fragments of MQL5, concatenated *)

\* Fragments that declare an input, with the entry each is to produce
Declarations ==
    ("input double Lots = 0.1;\n" :> "double Lots = 0.1")
    @@ ("input int  Period=14 ;\n" :> "int Period = 14")
    @@ ("input string Tag =\t\"My EA\"  ;" :> "string Tag = \"My EA\"")
    @@ ("input string Sep = \";\";\n" :> "string Sep = \";\"")

\* The same with each value read as ([^;]+) reads it: up to the first ';'
EntriesUpToSemicolon ==
    ("input string Sep = \";\";\n" :> "string Sep = \"") @@ Declarations

NameFragments ==
    {"string StrategyName = \"Alpha\";\n",
     "// Strategy: Beta\n",
     "// Strategy: Unknown\n",
     "// strategy: \n",
     "#property description \"Gamma\"\n",
     "//| Delta.mq5 |\n",
     "//| Eps - Tool\n",
     "// Zeta.mq5 - Tool\n",
     "// VolumeBreakout v2\n",
     "int Claude_MTX = 1;\n"}

CodeFragments ==
    {"int OnInit() { return(0); }\n",
     "void OnTick() { // entry\n if(iMA(0) > iRSI (1)) { Buy(); } }\n",
     "double atr = iATR(14);\n",
     "void OnTick() {\n // wait\n}\n"}

\* What the body of a source text is made of
Statements ==
    DOMAIN Declarations \cup CodeFragments
        \cup {"string StrategyName = \"Alpha\";\n"}

\* The texts: a head of naming lines, or a body of statements
Fragments ==
    SeqsUpTo(NameFragments, MaxNameLines)
        \cup SeqsUpTo(Statements, MaxStatements)

Mq5Files ==
    {[readable |-> FALSE, msg |-> msg, content |-> "", parts |-> <<>>] :
        msg \in ReadFailures}
    \cup {[readable |-> TRUE, msg |-> "", content |-> Join(parts, ""),
           parts |-> parts] : parts \in Fragments}

---------------------------------------------------------------------------
(* utils.validate_csv_structure *)

\* How many of the given columns the frame has
Matches(df, columns) ==
    Cardinality({i \in 1..Len(columns) : columns[i] \in Range(df.columns)})

\* `if standard_matches >= 3`
StandardPartial == 3

\* `if mt5_matches >= 5`
Mt5Partial == 5

\* pd.read_csv(file_path, nrows=5) without the comment parameter: the first
\* line of the file is the header, be it a comment line
read_csv_plain(file) ==
    IF HasKey(file, "failure") THEN [raised |-> TRUE, msg |-> file.failure]
    ELSE IF Len(file.comments) = 0 THEN read_csv(file)
    ELSE [raised |-> FALSE, columns |-> <<file.comments[1]>>]

\* The result keeps valid, format, columns, warning and error; sample_rows
\* and the expected_* lists of the failure are left out
validate_csv_structure(file) ==
    LET first == read_csv(file)
        df == IF first.raised THEN read_csv_plain(file) ELSE first
        standard_matches == Matches(df, required_columns)
        mt5_matches == Matches(df, mt5_columns)
    IN IF df.raised
       THEN [valid |-> FALSE, error |-> "Failed to validate CSV: " \o df.msg]
       ELSE IF standard_matches = Len(required_columns)
       THEN [valid |-> TRUE, format |-> "standard", columns |-> df.columns]
       ELSE IF mt5_matches = Len(mt5_columns)
       THEN [valid |-> TRUE, format |-> "mt5", columns |-> df.columns]
       ELSE IF standard_matches >= StandardPartial
       THEN [valid |-> TRUE, format |-> "standard_partial",
             columns |-> df.columns,
             warning |-> "Partial standard format match ("
                            \o ToString(standard_matches) \o "/"
                            \o ToString(Len(required_columns)) \o " columns)"]
       ELSE IF mt5_matches >= Mt5Partial
       THEN [valid |-> TRUE, format |-> "mt5_partial",
             columns |-> df.columns,
             warning |-> "Partial MT5 format match ("
                            \o ToString(mt5_matches) \o "/"
                            \o ToString(Len(mt5_columns)) \o " columns)"]
       ELSE [valid |-> FALSE,
             error |-> "CSV format not recognized. Found columns: "
                          \o ListRepr(df.columns),
             found_columns |-> df.columns]

---------------------------------------------------------------------------
(* State machine: each entry point is called on an input and returns *)

NoFile == [comments |-> <<>>, header |-> <<>>, rows |-> <<>>]

NoSource == [readable |-> TRUE, msg |-> "", content |-> "", parts |-> <<>>]

Init ==
    /\ pc = "idle"
    /\ csv_file = NoFile
    /\ csv_data = EmptyMap
    /\ csv_validation = EmptyMap
    /\ mq5_file = NoSource
    /\ mq5_data = EmptyMap
    /\ sum_args = <<EmptyMap, EmptyMap>>
    /\ summary = ""
    /\ clock = 0
    /\ strategies = EmptyMap
    /\ store_calls = <<>>
    /\ store_base = 0
    /\ uploads = EmptyMap
    /\ reports = {}
    /\ requests = EmptyMap

\* CSVBacktestParser().parse_csv_file(file_path)
ParseCsvFile(file) ==
    /\ pc = "idle"
    /\ pc' = "csv"
    /\ csv_file' = file
    /\ csv_data' = parse_csv_file(file)
    /\ UNCHANGED <<csv_validation, mq5_file, mq5_data, sum_args, summary>>
    /\ UNCHANGED server_vars

\* validate_csv_structure(file_path)
ValidateCsvStructure(file) ==
    /\ pc = "idle"
    /\ pc' = "validated"
    /\ csv_file' = file
    /\ csv_validation' = validate_csv_structure(file)
    /\ UNCHANGED <<csv_data, mq5_file, mq5_data, sum_args, summary>>
    /\ UNCHANGED server_vars

\* The caller is done with the result; the parsers keep nothing between calls
Discard ==
    /\ pc # "idle"
    /\ pc' = "idle"
    /\ csv_file' = NoFile
    /\ csv_data' = EmptyMap
    /\ csv_validation' = EmptyMap
    /\ mq5_file' = NoSource
    /\ mq5_data' = EmptyMap
    /\ sum_args' = <<EmptyMap, EmptyMap>>
    /\ summary' = ""
    /\ UNCHANGED server_vars

NextCsv ==
    \/ \E file \in CsvFiles : ParseCsvFile(file)
    \/ \E file \in CsvFiles : ValidateCsvStructure(file)
    \/ Discard

SpecCsv == Init /\ [][NextCsv]_vars

\* MQL5Parser().parse_mq5_file(file_path)
ParseMq5File(file) ==
    /\ pc = "idle"
    /\ pc' = "mq5"
    /\ mq5_file' = file
    /\ mq5_data' \in parse_mq5_file(file)
    /\ UNCHANGED <<csv_file, csv_data, csv_validation, sum_args, summary>>
    /\ UNCHANGED server_vars

NextMq5 ==
    \/ \E file \in Mq5Files : ParseMq5File(file)
    \/ Discard

SpecMq5 == Init /\ [][NextMq5]_vars

\* create_summary(mq5_data, csv_data)
CreateSummary(mq5, csv) ==
    /\ pc = "idle"
    /\ pc' = "summary"
    /\ sum_args' = <<mq5, csv>>
    /\ summary' = create_summary(mq5, csv)
    /\ UNCHANGED <<csv_file, csv_data, csv_validation, mq5_file, mq5_data>>
    /\ UNCHANGED server_vars

NextSummary ==
    \/ \E args \in SummaryArgs : CreateSummary(args[1], args[2])
    \/ Discard

SpecSummary == Init /\ [][NextSummary]_vars

---------------------------------------------------------------------------
(* What the tables hold, read off the file independently of the parser *)

HasStandardColumns(header) == Range(required_columns) \subseteq Range(header)

HasMt5Columns(header) == Range(mt5_columns) \subseteq Range(header)

TakesMt5Route(header) == "Time" \in Range(header) /\ "Type" \in Range(header)

Parsed == pc = "csv"

Succeeded == Parsed /\ ~HasKey(csv_data, "error")

\* The rows of the file whose cell in a column is a number
NumericRows(file, col) ==
    IF col \notin Range(file.header) THEN {}
    ELSE {i \in 1..Len(file.rows) : file.rows[i][col] \in IntTexts}

RECURSIVE SumCells(_, _, _)
SumCells(file, col, S) ==
    IF S = {} THEN 0
    ELSE LET i == CHOOSE j \in S : TRUE
         IN NumericValue[file.rows[i][col]] + SumCells(file, col, S \ {i})

\* The rows of an MT5 file that are trades
TradeRowsOf(file) ==
    {i \in 1..Len(file.rows) : file.rows[i]["Type"] \in {"buy", "sell", "close"}}

OnlyTradeRows(file) ==
    [file EXCEPT !.rows =
        SelectSeq(file.rows, LAMBDA r : r["Type"] \in {"buy", "sell", "close"})]

---------------------------------------------------------------------------
(* C1: a table whose header lacks at least one of the five STANDARD columns
   and does not contain all 13 MT5 columns gets an 'error' result with empty
   stats and empty trades, never a populated stats mapping. *)
C1_UnrecognizedHeaderIsError ==
    (Parsed /\ ~HasStandardColumns(csv_file.header)
            /\ ~HasMt5Columns(csv_file.header))
        => /\ HasKey(csv_data, "error")
           /\ DOMAIN csv_data.stats = {}
           /\ csv_data.trades = <<>>

(* C2: for every successfully parsed STANDARD table, winning_trades +
   losing_trades <= total_trades, 0 <= win_rate <= 100, and rows whose PnL is
   exactly zero are counted in neither winning_trades nor losing_trades. *)
C2_WinLossWithinTotal ==
    (Succeeded /\ HasStandardColumns(csv_file.header))
        => LET st == csv_data.stats
               nonzero == {i \in NumericRows(csv_file, "PnL") :
                              NumericValue[csv_file.rows[i]["PnL"]] # 0}
           IN /\ st.winning_trades + st.losing_trades <= st.total_trades
              /\ RatLeq(Zero, st.win_rate)
              /\ RatLeq(st.win_rate, Rat(100, 1))
              /\ st.winning_trades + st.losing_trades = Cardinality(nonzero)

C2_Witness ==
    /\ Succeeded /\ HasStandardColumns(csv_file.header)
    /\ \E i \in NumericRows(csv_file, "PnL") :
           NumericValue[csv_file.rows[i]["PnL"]] = 0
    /\ csv_data.stats.winning_trades = 1
    /\ csv_data.stats.winning_trades + csv_data.stats.losing_trades
           < csv_data.stats.total_trades

(* C3: for every recognized table (STANDARD or MT5) with zero rows of numeric
   PnL/Profit, the returned stats contains win_rate and its value is 0. *)
C3_NoNumericPnLGivesZeroWinRate ==
    LET col == IF TakesMt5Route(csv_file.header) THEN "Profit" ELSE "PnL"
        counted == IF TakesMt5Route(csv_file.header)
                   THEN NumericRows(csv_file, col) \cap TradeRowsOf(csv_file)
                   ELSE NumericRows(csv_file, col)
    IN (Succeeded /\ counted = {})
          => /\ HasKey(csv_data.stats, "win_rate")
             /\ csv_data.stats.win_rate = Zero

(* C5: for every STANDARD table, total_trades is the number of data rows,
   winning_trades / losing_trades the numbers of rows with numeric PnL > 0 /
   < 0, total_pnl the sum of the numeric PnL values, and win_rate is
   winning_trades over the number of numeric-PnL rows, times 100. *)
C5_StandardStatistics ==
    (Parsed /\ HasStandardColumns(csv_file.header)
            /\ ~TakesMt5Route(csv_file.header))
        => /\ ~HasKey(csv_data, "error")
           /\ LET st == csv_data.stats
                  num == NumericRows(csv_file, "PnL")
                  Val(i) == NumericValue[csv_file.rows[i]["PnL"]]
                  wins == Cardinality({i \in num : Val(i) > 0})
              IN /\ st.total_trades = Len(csv_file.rows)
                 /\ st.winning_trades = wins
                 /\ st.losing_trades = Cardinality({i \in num : Val(i) < 0})
                 /\ st.total_pnl = [n |-> SumCells(csv_file, "PnL", num), d |-> 1]
                 /\ IF num = {} THEN st.win_rate = Zero
                    ELSE st.win_rate.n * Cardinality(num)
                            = wins * 100 * st.win_rate.d

(* C6: in an MT5 table only the rows whose Type is exactly buy, sell or close
   contribute: total_trades is their number, and no other row contributes to a
   count, a PnL aggregate, the symbol or period figures, or the recent trades. *)
C6_OnlyTradeRowsContribute ==
    (Succeeded /\ TakesMt5Route(csv_file.header))
        => LET clean == parse_csv_file(OnlyTradeRows(csv_file))
               n == Cardinality(TradeRowsOf(csv_file))
           IN /\ csv_data.stats.total_trades = n
              /\ csv_data.total_trades = n
              /\ csv_data.stats = clean.stats
              /\ Len(csv_data.trades) = Min2(RecentLimit, n)
              /\ \A i \in 1..Len(csv_data.trades) :
                    /\ csv_data.trades[i].action \in {"buy", "sell", "close"}
                    /\ csv_data.trades[i].action = clean.trades[i].action
                    /\ csv_data.trades[i].timestamp = clean.trades[i].timestamp
                    /\ csv_data.trades[i].symbol = clean.trades[i].symbol

C6_Witness ==
    /\ Succeeded /\ HasMt5Columns(csv_file.header)
    /\ Cardinality(TradeRowsOf(csv_file)) = 2
    /\ \E i \in 1..Len(csv_file.rows) : csv_file.rows[i]["Type"] = "BUY"
    /\ csv_data.stats.total_trades = 2

(* C7: an MT5 table without any buy, sell or close row gives a result without
   'error', with total_trades = 0, with win_rate, total_pnl, average_pnl,
   max_profit, max_loss, winning_trades and losing_trades all 0, and with an
   empty trades list. *)
C7_NoTradeRowsGivesZeroStats ==
    (Parsed /\ TakesMt5Route(csv_file.header) /\ TradeRowsOf(csv_file) = {})
        => /\ ~HasKey(csv_data, "error")
           /\ csv_data.stats.total_trades = 0
           /\ \A k \in {"win_rate", "total_pnl", "average_pnl",
                        "max_profit", "max_loss"} :
                  HasKey(csv_data.stats, k) /\ csv_data.stats[k] = Zero
           /\ \A k \in {"winning_trades", "losing_trades"} :
                  HasKey(csv_data.stats, k) /\ csv_data.stats[k] = 0
           /\ csv_data.trades = <<>>

C7_Witness ==
    /\ Parsed /\ TakesMt5Route(csv_file.header)
    /\ Len(csv_file.rows) = 1
    /\ csv_file.rows[1]["Type"] = "deposit"
    /\ csv_data.stats.total_trades = 0

---------------------------------------------------------------------------
(* The lines of a summary *)

\* The positions of the line ends of a text
LineEnds(text) == {i \in 1..Len(text) : Ch(text, i) = "\n"}

\* text.split("\n")
Lines(text) ==
    LET ends == LineEnds(text)
        n == Cardinality(ends)
        End(k) == CHOOSE p \in ends : Cardinality({q \in ends : q < p}) = k - 1
    IN [k \in 1..(n + 1) |->
           SubSeq(text, IF k = 1 THEN 1 ELSE End(k - 1) + 1,
                        IF k = n + 1 THEN Len(text) ELSE End(k) - 1)]

IndexOfLine(lines, line) == SetMin({i \in 1..Len(lines) : lines[i] = line})

\* The lines between the results heading and the recent-trades heading
ResultLines(text) ==
    LET lines == Lines(text)
    IN SubSeq(lines, IndexOfLine(lines, "BACKTEST RESULTS:") + 1,
              IndexOfLine(lines, "RECENT TRADES (Last 5):") - 1)

\* The lines of a section that report a figure under one of the labels
Reported(lines, labels) ==
    SelectSeq(lines, LAMBDA l : \E lab \in labels : StartsWith(l, lab))

Summarized == pc = "summary"

ArgConfig == Get(sum_args[2], "config", EmptyMap)

ArgStats == Get(sum_args[2], "stats", EmptyMap)

(* C4: when config carries net_profit, the profit figure of the results
   section is exactly that text and not the computed total_pnl; likewise the
   config total_trades and win_rate, when present, are the figures printed. *)
C4_ConfigFiguresPreferred ==
    Summarized =>
        LET sec == ResultLines(summary)
        IN /\ HasKey(ArgConfig, "net_profit") =>
                 Reported(sec, {"Net Profit: ", "Total PnL: "})
                    = <<"Net Profit: " \o ArgConfig["net_profit"]>>
           /\ HasKey(ArgConfig, "total_trades") =>
                 Reported(sec, {"Total Trades: "})
                    = <<"Total Trades: " \o ArgConfig["total_trades"]>>
           /\ HasKey(ArgConfig, "win_rate") =>
                 Reported(sec, {"Win Rate: "})
                    = <<"Win Rate: " \o ArgConfig["win_rate"]>>

C4_Witness ==
    /\ Summarized
    /\ HasKey(ArgConfig, "net_profit") /\ HasKey(ArgStats, "total_pnl")
    /\ Fmt2(ArgStats["total_pnl"]) # ArgConfig["net_profit"]
    /\ HasKey(ArgConfig, "win_rate") /\ HasKey(ArgStats, "win_rate")
    /\ HasKey(ArgConfig, "total_trades")
    /\ Reported(ResultLines(summary), {"Net Profit: "}) # <<>>

---------------------------------------------------------------------------
(* Source texts *)

SourceParsed == pc = "mq5" /\ mq5_file.readable

\* Whether the first match of the k-th name pattern, if any, captures a text
\* that is empty or "Unknown" once trimmed
NoUsableCapture(content, k) ==
    LET m == Search(content, NamePatterns[k], 1, TRUE)
    IN ~m.ok \/ Strip(Group(content, m, 1)) \in {"", "Unknown"}

(* C9: a readable source text in which none of the six name patterns yields a
   non-empty, non-"Unknown" capture and which contains neither
   "VolumeBreakout" nor "Claude_MTX" gets the name "Trading_Strategy", without
   an 'error' key; the name is never the empty string. *)
C9_DefaultStrategyName ==
    SourceParsed =>
        /\ ~HasKey(mq5_data, "error")
        /\ mq5_data.strategy_name # ""
        /\ ( /\ \A k \in 1..Len(NamePatterns) :
                    NoUsableCapture(mq5_file.content, k)
             /\ ~Contains(mq5_file.content, "VolumeBreakout")
             /\ ~Contains(mq5_file.content, "Claude_MTX") )
              => mq5_data.strategy_name = "Trading_Strategy"

C9_Witness ==
    /\ SourceParsed
    /\ \E k \in 1..Len(NamePatterns) :
           Search(mq5_file.content, NamePatterns[k], 1, TRUE).ok
    /\ \A k \in 1..Len(NamePatterns) : NoUsableCapture(mq5_file.content, k)
    /\ mq5_data.strategy_name = "Trading_Strategy"

(* C10: each declaration `input <type> <name> = <value>;` of a source text
   produces, in order of appearance, one entry "<type> <name> = <value>" of
   parameters, the value trimmed; a text containing
   `input double Lots = 0.1;` yields the entry "double Lots = 0.1". *)
C10_ParametersInOrder ==
    SourceParsed =>
        LET declared == SelectSeq(mq5_file.parts,
                                  LAMBDA f : f \in DOMAIN Declarations)
        IN /\ mq5_data.parameters
                = [i \in 1..Len(declared) |-> Declarations[declared[i]]]
           /\ Contains(mq5_file.content, "input double Lots = 0.1;")
                => "double Lots = 0.1" \in Range(mq5_data.parameters)

(* What does hold of parameters: each declaration produces, in order of
   appearance, one entry "<type> <name> = <v>", where <v> is the text from
   the '=' to the first ';' after it, trimmed. *)
C10_ParametersUpToFirstSemicolon ==
    SourceParsed =>
        LET declared == SelectSeq(mq5_file.parts,
                                  LAMBDA f : f \in DOMAIN Declarations)
        IN /\ mq5_data.parameters
                = [i \in 1..Len(declared) |-> EntriesUpToSemicolon[declared[i]]]
           /\ Contains(mq5_file.content, "input double Lots = 0.1;")
                => "double Lots = 0.1" \in Range(mq5_data.parameters)

\* A value cut at its ';' ahead of a declaration that is emitted whole
C10_Witness ==
    /\ SourceParsed
    /\ Len(mq5_data.parameters) = 2
    /\ mq5_data.parameters[1] = "string Sep = \""
    /\ mq5_data.parameters[2] = "double Lots = 0.1"

Mq5Keys ==
    {"strategy_name", "functions", "trading_logic", "parameters", "indicators",
     "raw_content"}

(* C11: parse_mq5_file returns, for a missing file, an unreadable file,
   undecodable bytes and any text, a mapping with the keys strategy_name,
   functions, trading_logic, parameters, indicators and raw_content; when the
   read fails the mapping also carries 'error' and the other fields hold
   "Unknown", the empty list and the empty text; when nothing fails the
   mapping has no 'error' key. *)
C11_AlwaysAMapping ==
    pc = "mq5" =>
        /\ Mq5Keys \subseteq DOMAIN mq5_data
        /\ IF mq5_file.readable
           THEN DOMAIN mq5_data = Mq5Keys
           ELSE /\ DOMAIN mq5_data = Mq5Keys \cup {"error"}
                /\ mq5_data.error = "Failed to parse MQL5 file: " \o mq5_file.msg
                /\ mq5_data.strategy_name = "Unknown"
                /\ mq5_data.functions = <<>>
                /\ mq5_data.trading_logic = ""
                /\ mq5_data.parameters = <<>>
                /\ mq5_data.indicators = <<>>
                /\ mq5_data.raw_content = ""

\* Undecodable bytes: the UnicodeDecodeError of file.read() is reported
C11_Witness ==
    /\ pc = "mq5"
    /\ ~mq5_file.readable
    /\ StartsWith(mq5_file.msg, "'utf-8' codec can't decode")
    /\ HasKey(mq5_data, "error")
    /\ mq5_data.raw_content = ""

(* C12: parse_csv_file returns one mapping for every path, read or not, and
   every mapping that carries 'error' has exactly the keys error, stats and
   trades, with stats the empty mapping and trades the empty list. *)
C12_ErrorResultsAreEmpty ==
    pc = "csv" =>
        /\ {"stats", "trades"} \subseteq DOMAIN csv_data
        /\ HasKey(csv_data, "error") =>
               /\ DOMAIN csv_data = {"error", "stats", "trades"}
               /\ csv_data.stats = EmptyMap
               /\ csv_data.trades = <<>>

\* A failure in the statistics stage, after the rows were read and counted
C12_Witness ==
    /\ pc = "csv"
    /\ HasStandardColumns(csv_file.header)
    /\ Len(csv_file.rows) = 2
    /\ HasKey(csv_data, "error")
    /\ csv_data.stats = EmptyMap

\* The table was read, and it has the marker columns of neither schema or
\* lacks a required column of the standard one
LacksSchemaColumns(file) ==
    /\ ~HasKey(file, "failure") /\ Len(file.header) > 0
    /\ ~TakesMt5Route(file.header)
    /\ ~HasStandardColumns(file.header)

(* C13: whenever parse_csv_file fails because required schema columns are
   absent, with the marker columns of neither schema or with Timestamp and
   Action but without Symbol, Price or PnL, the error diagnostic lists the
   columns found in the header of the table. *)
C13_DiagnosticListsColumnsFound ==
    (pc = "csv" /\ LacksSchemaColumns(csv_file)) =>
        /\ HasKey(csv_data, "error")
        /\ Contains(csv_data.error, ListRepr(csv_file.header))

(* C14: for every input to parse_mq5_file the returned trading_logic is never
   the empty string and has at most 1000 characters; it is "Trading logic not
   found" when no OnTick handler body is matched and otherwise the handler
   body without comments, without line ends or runs of spaces and trimmed,
   also for a body of only whitespace or comments and on the error path. *)
C14_TradingLogicNeverEmpty ==
    pc = "mq5" =>
        LET logic == mq5_data.trading_logic
            matched == /\ mq5_file.readable
                       /\ Search(mq5_file.content, on_tick_pattern, 1, FALSE).ok
        IN /\ logic # ""
           /\ Len(logic) <= LogicLimit
           /\ ~matched => logic = "Trading logic not found"
           /\ matched => /\ ~Contains(logic, "\n")
                          /\ ~Contains(logic, "  ")
                          /\ ~Contains(logic, "//")
                          /\ Strip(logic) = logic

(* C15: when config is not empty the results section still reports average
   PnL, the winning and losing counts, max profit and max loss, taken from
   the computed stats. *)
C15_ComputedFiguresStillReported ==
    (Summarized /\ DOMAIN ArgConfig # {}) =>
        LET sec == ResultLines(summary)
        IN /\ Reported(sec, {"Average PnL: "})
                 = <<"Average PnL: " \o Fmt2(Get(ArgStats, "average_pnl", Zero))>>
           /\ Reported(sec, {"Winning Trades: "})
                 = <<"Winning Trades: "
                       \o ToString(Get(ArgStats, "winning_trades", 0))>>
           /\ Reported(sec, {"Losing Trades: "})
                 = <<"Losing Trades: "
                       \o ToString(Get(ArgStats, "losing_trades", 0))>>
           /\ Reported(sec, {"Max Profit: "})
                 = <<"Max Profit: " \o Fmt2(Get(ArgStats, "max_profit", Zero))>>
           /\ Reported(sec, {"Max Loss: "})
                 = <<"Max Loss: " \o Fmt2(Get(ArgStats, "max_loss", Zero))>>

\* The labels under which the summary prints the texts of config
ConfigTextLabels ==
    ("expert_advisor" :> "Expert Advisor: ") @@ ("symbol" :> "Symbol: ")
    @@ ("timeframe" :> "Timeframe: ") @@ ("period" :> "Period: ")
    @@ ("initial_deposit" :> "Initial Deposit: ") @@ ("leverage" :> "Leverage: ")
    @@ ("final_balance" :> "Final Balance: ")
    @@ ("max_drawdown" :> "Max Drawdown: ") @@ ("sharpe_ratio" :> "Sharpe Ratio: ")

\* The lines the summary prints for the figures of stats that are absent,
\* when config is empty
ZeroLines ==
    ("total_trades" :> "Total Trades: 0") @@ ("win_rate" :> "Win Rate: 0.00%")
    @@ ("total_pnl" :> "Total PnL: 0.00") @@ ("average_pnl" :> "Average PnL: 0.00")
    @@ ("winning_trades" :> "Winning Trades: 0")
    @@ ("losing_trades" :> "Losing Trades: 0")
    @@ ("max_profit" :> "Max Profit: 0.00") @@ ("max_loss" :> "Max Loss: 0.00")

\* The lines for the figures absent from config and from stats, when config
\* is not empty
ZeroLinesWithConfig ==
    ("total_trades" :> "Total Trades: 0") @@ ("win_rate" :> "Win Rate: 0.00%")
    @@ ("total_pnl" :> "Net Profit: 0.00")

ConfigFigureKey ==
    ("total_trades" :> "total_trades") @@ ("win_rate" :> "win_rate")
    @@ ("total_pnl" :> "net_profit")

\* The lines for the fields absent from mq5_data
Mq5DefaultLines ==
    ("strategy_name" :> "Strategy Name: Unknown")
    @@ ("functions" :> "Functions Found: ")
    @@ ("indicators" :> "Indicators Used: ")
    @@ ("parameters" :> "Parameters: ")
    @@ ("trading_logic" :> "Trading Logic: Not found")

\* The line of the i-th trade, every absent key of it shown as "Unknown"
ExpectedTradeLine(i, trade) ==
    LET Field(k) == IF HasKey(trade, k) THEN trade[k] ELSE "Unknown"
    IN ToString(i) \o ". " \o Field("timestamp") \o " - " \o Field("action")
       \o " " \o Field("symbol") \o " @ " \o Field("price")
       \o " (PnL: " \o Field("pnl") \o ")"

(* C16: create_summary returns a text for every mq5_data and csv_data from
   which keys are absent (keys of mq5_data, stats, config, trades, the ends of
   trading_period, keys of a trade record), and for the error results of the
   two parsers; each absent text is shown as "Unknown" or as the default of
   the field, each absent number as zero. *)
C16_AbsentFieldsGetDefaults ==
    Summarized =>
        LET lines == Range(Lines(summary))
            mq5 == sum_args[1]
            trades == Get(sum_args[2], "trades", <<>>)
        IN /\ \A k \in DOMAIN Mq5DefaultLines :
                  ~HasKey(mq5, k) => Mq5DefaultLines[k] \in lines
           /\ DOMAIN ArgConfig = {} =>
                  \A k \in DOMAIN ZeroLines :
                      ~HasKey(ArgStats, k) => ZeroLines[k] \in lines
           /\ DOMAIN ArgConfig # {} =>
                  /\ \A k \in DOMAIN ConfigTextLabels :
                         ~HasKey(ArgConfig, k) =>
                             (ConfigTextLabels[k] \o "Unknown") \in lines
                  /\ \A k \in DOMAIN ZeroLinesWithConfig :
                         (~HasKey(ArgConfig, ConfigFigureKey[k])
                              /\ ~HasKey(ArgStats, k)) =>
                             ZeroLinesWithConfig[k] \in lines
           /\ ~HasKey(ArgStats, "unique_symbols") => "Symbols Traded: 0" \in lines
           /\ ~HasKey(ArgStats, "most_traded_symbol") =>
                  "Most Traded Symbol: Unknown" \in lines
           /\ HasKey(ArgStats, "trading_period") =>
                  LET p == ArgStats["trading_period"]
                  IN ("Trading Period: " \o Get(p, "start", "Unknown") \o " to "
                         \o Get(p, "end", "Unknown")) \in lines
           /\ \A i \in 1..Min2(SummaryTrades, Len(trades)) :
                  ExpectedTradeLine(i, trades[i]) \in lines

\* The error results of both parsers, summarized
C16_Witness ==
    /\ Summarized
    /\ HasKey(sum_args[1], "error") /\ HasKey(sum_args[2], "error")
    /\ "Strategy Name: Unknown" \in Range(Lines(summary))
    /\ "Win Rate: 0.00%" \in Range(Lines(summary))
    /\ "Most Traded Symbol: Unknown" \in Range(Lines(summary))

\* The file with a number in every PnL/Profit cell that held none
WithNumericPnL(file, col) ==
    [file EXCEPT !.rows =
        [i \in 1..Len(file.rows) |->
            IF file.rows[i][col] \in IntTexts THEN file.rows[i]
            ELSE [file.rows[i] EXCEPT ![col] = "0"]]]

\* The column of a recognized table that holds the PnL
PnLColumn(header) == IF TakesMt5Route(header) THEN "Profit" ELSE "PnL"

\* The rows of a recognized table that are trades
CountedRows(file) ==
    IF TakesMt5Route(file.header) THEN TradeRowsOf(file)
    ELSE 1..Len(file.rows)

(* C17: a PnL/Profit cell that is not a number never aborts parsing. For
   every recognized table with that column, the rows whose cell is not a
   number are left out of total_pnl, average_pnl, max_profit, max_loss,
   winning_trades, losing_trades and the denominator of win_rate, they are
   counted in total_trades, and a result with an 'error' key has it also when
   every such cell holds a number. *)
C17_NonNumericPnLIsDropped ==
    LET col == PnLColumn(csv_file.header)
    IN (Parsed /\ col \in Range(csv_file.header)) =>
        /\ HasKey(csv_data, "error") =>
               HasKey(parse_csv_file(WithNumericPnL(csv_file, col)), "error")
        /\ ~HasKey(csv_data, "error") =>
               LET st == csv_data.stats
                   num == NumericRows(csv_file, col) \cap CountedRows(csv_file)
                   Val(i) == NumericValue[csv_file.rows[i][col]]
                   wins == Cardinality({i \in num : Val(i) > 0})
                   total == SumCells(csv_file, col, num)
               IN /\ st.total_trades = Cardinality(CountedRows(csv_file))
                  /\ st.winning_trades = wins
                  /\ st.losing_trades = Cardinality({i \in num : Val(i) < 0})
                  /\ st.total_pnl = [n |-> total, d |-> 1]
                  /\ IF num = {} THEN st.win_rate = Zero
                     ELSE /\ st.win_rate.n * Cardinality(num)
                                = wins * 100 * st.win_rate.d
                          /\ st.average_pnl.n * Cardinality(num)
                                = total * st.average_pnl.d
                          /\ \E i \in num :
                                /\ st.max_profit = [n |-> Val(i), d |-> 1]
                                /\ \A j \in num : Val(j) <= Val(i)
                          /\ \E i \in num :
                                /\ st.max_loss = [n |-> Val(i), d |-> 1]
                                /\ \A j \in num : Val(j) >= Val(i)

\* A table parsed without error in which a counted row has a PnL text that is
\* no number and another counted row has a number
C17_Witness ==
    LET col == PnLColumn(csv_file.header)
    IN /\ Succeeded /\ col \in Range(csv_file.header)
       /\ \E i, j \in CountedRows(csv_file) :
              /\ csv_file.rows[i][col] = "pending"
              /\ csv_file.rows[j][col] \in IntTexts
       /\ csv_data.stats.total_trades
              > Cardinality(NumericRows(csv_file, col) \cap CountedRows(csv_file))

\* How str() shows a cell of the table in a record: a number may gain ".0", a
\* date its time of day, an empty cell is "nan" or "NaT"
ShownAs(text, cell) ==
    IF cell = NA THEN text \in {"nan", "NaT"}
    ELSE text \in {cell, cell \o ".0", cell \o " 00:00:00"}

\* The record made of one row of a table, column by column
RecordOfRow(rec, file, row, cols) ==
    \A k \in DOMAIN cols :
        /\ rec[k] \in STRING
        /\ IF cols[k] \in Range(file.header)
           THEN ShownAs(rec[k], row[cols[k]])
           ELSE rec[k] = "Unknown"

\* The columns the five keys of a record are read from
RecordColumns(header) ==
    IF TakesMt5Route(header)
    THEN [timestamp |-> "Time", action |-> "Type", symbol |-> "Symbol",
          price |-> "Price", pnl |-> "Profit"]
    ELSE [timestamp |-> "Timestamp", action |-> "Action", symbol |-> "Symbol",
          price |-> "Price", pnl |-> "PnL"]

(* C18: for every table parsed without error, with n trade rows, the trades
   list has exactly min(10, n) records; they are the last min(10, n) trade
   rows in the order of the file; every record has exactly the keys
   timestamp, action, symbol, price, pnl, each holding a string. *)
C18_RecentTradesAreTheLastTen ==
    Succeeded =>
        LET counted == IF TakesMt5Route(csv_file.header)
                       THEN OnlyTradeRows(csv_file).rows
                       ELSE csv_file.rows
            n == Len(counted)
            k == IF n < 10 THEN n ELSE 10
            trades == csv_data.trades
        IN /\ Len(trades) = k
           /\ \A i \in 1..k :
                  /\ DOMAIN trades[i]
                        = {"timestamp", "action", "symbol", "price", "pnl"}
                  /\ RecordOfRow(trades[i], csv_file, counted[n - k + i],
                                 RecordColumns(csv_file.header))

\* An MT5 table of more than ten trade rows and a row that is no trade,
\* parsed: its first trade row is not among the records
C18_Witness ==
    /\ Succeeded
    /\ TakesMt5Route(csv_file.header)
    /\ Len(csv_data.trades) = 10
    /\ csv_data.total_trades > 10
    /\ Len(csv_file.rows) > csv_data.total_trades

\* The text of a line after the first occurrence of a label, trimmed
RestOfLine(line, label) ==
    LET first == SetMin(Occurrences(line, label))
    IN Strip(SubSeq(line, first + Len(label), Len(line)))

\* The labels a comment line holds
LabelsIn(line) ==
    {k \in 1..Len(ConfigLabels) :
        StartsWith(Strip(line), "#") /\ Contains(line, ConfigLabels[k][1])}

(* C19: for every comment line that holds a recognized label (no other
   comment line holding that label), the value stored under the key of the
   label is the whole text of the line after the label, trimmed - also when
   the label occurs more than once in the line, and when the line holds
   several recognized labels. *)
C19_ConfigValueIsRestOfLine ==
    (Succeeded /\ HasKey(csv_data, "config")) =>
        \A i \in 1..Len(csv_file.comments) :
            \A k \in LabelsIn(csv_file.comments[i]) :
                (\A j \in 1..Len(csv_file.comments) :
                     k \in LabelsIn(csv_file.comments[j])
                         => csv_file.comments[j] = csv_file.comments[i])
                    => /\ HasKey(csv_data.config, ConfigLabels[k][2])
                       /\ csv_data.config[ConfigLabels[k][2]]
                             = RestOfLine(Strip(csv_file.comments[i]),
                                          ConfigLabels[k][1])

\* The trimmed captures that are neither empty nor "Unknown", over the matches
\* of the k-th name pattern anywhere in the text
UsableCaptures(content, k) ==
    {name \in {LET m == Search(content, NamePatterns[k], i, TRUE)
               IN IF m.ok THEN Strip(Group(content, m, 1)) ELSE "" :
                   i \in 1..Len(content)} :
        name \notin {"", "Unknown"}}

(* C20: name extraction is an ordered fallback. For every source text the
   name is the trimmed capture of the earliest of the six patterns that has a
   non-empty, non-"Unknown" match in the text; "VolumeBreakout" and then
   "Claude_MTX" are consulted only when no pattern has such a match, and the
   default name is given only when neither is in the text. *)
C20_NameIsEarliestUsableMatch ==
    SourceParsed =>
        LET content == mq5_file.content
            usable == {k \in 1..Len(NamePatterns) :
                          UsableCaptures(content, k) # {}}
        IN IF usable # {}
           THEN mq5_data.strategy_name \in UsableCaptures(content, SetMin(usable))
           ELSE mq5_data.strategy_name =
                   IF Contains(content, "VolumeBreakout") THEN "VolumeBreakoutEA"
                   ELSE IF Contains(content, "Claude_MTX")
                        THEN "Claude_MTX_Strategy"
                   ELSE "Trading_Strategy"

\* The column of a recognized table that holds the time of a trade
TimeColumn(header) == IF TakesMt5Route(header) THEN "Time" ELSE "Timestamp"

\* The file with a date in every time cell that held none
WithDates(file, col) ==
    [file EXCEPT !.rows =
        [i \in 1..Len(file.rows) |->
            IF file.rows[i][col] \in DOMAIN DateValue THEN file.rows[i]
            ELSE [file.rows[i] EXCEPT ![col] = "2024-01-01"]]]

\* The statistics apart from trading_period
OtherStats(stats) == Restrict(stats, DOMAIN stats \ {"trading_period"})

(* C21: a time column that does not parse as dates is not fatal. For every
   recognized table with at least one trade row: if every Timestamp/Time cell
   of the trade rows is a date, trading_period holds the formatted least date
   as start and the formatted greatest date as end; if one is not,
   trading_period is {start: "Unknown", end: "Unknown"}; in both cases the
   result has an 'error' key only if it has one with a column of dates, and
   all other statistics are those of the table with a column of dates. *)
C21_UnparsedTimeIsNotFatal ==
    LET col == TimeColumn(csv_file.header)
        rows == CountedRows(csv_file)
        other == parse_csv_file(WithDates(csv_file, col))
    IN (Parsed /\ ~HasKey(csv_file, "failure")
               /\ col \in Range(csv_file.header) /\ rows # {}
               /\ (HasStandardColumns(csv_file.header)
                      \/ TakesMt5Route(csv_file.header))) =>
        /\ HasKey(csv_data, "error") <=> HasKey(other, "error")
        /\ ~HasKey(csv_data, "error") =>
              /\ OtherStats(csv_data.stats) = OtherStats(other.stats)
              /\ IF \A i \in rows : csv_file.rows[i][col] \in DOMAIN DateValue
                 THEN \E i, j \in rows :
                        /\ \A k \in rows :
                              /\ DateValue[csv_file.rows[i][col]]
                                    <= DateValue[csv_file.rows[k][col]]
                              /\ DateValue[csv_file.rows[k][col]]
                                    <= DateValue[csv_file.rows[j][col]]
                        /\ csv_data.stats.trading_period =
                              [start |-> csv_file.rows[i][col] \o " 00:00:00",
                               end |-> csv_file.rows[j][col] \o " 00:00:00"]
                 ELSE csv_data.stats.trading_period =
                        [start |-> "Unknown", end |-> "Unknown"]

\* A table parsed without error in which one trade row has a date and another
\* has a text that is no date
C21_Witness ==
    LET col == TimeColumn(csv_file.header)
    IN /\ Succeeded /\ col \in Range(csv_file.header)
       /\ \E i, j \in CountedRows(csv_file) :
              /\ csv_file.rows[i][col] = "soon"
              /\ csv_file.rows[j][col] \in DOMAIN DateValue
       /\ csv_data.stats.trading_period = [start |-> "Unknown", end |-> "Unknown"]
       /\ HasKey(csv_data.stats, "total_trades")

(* C22: computing the statistics leaves the trade table unchanged for the
   recent-trade extraction: for every table parsed without error, the
   timestamp of each record in trades is the text of the Timestamp/Time cell
   of its row as read from the file, whether or not the column parsed as
   dates. *)
C22_TimestampsAsRead ==
    Succeeded =>
        LET col == TimeColumn(csv_file.header)
            counted == IF TakesMt5Route(csv_file.header)
                       THEN OnlyTradeRows(csv_file).rows
                       ELSE csv_file.rows
            n == Len(counted)
            trades == csv_data.trades
        IN \A i \in 1..Len(trades) :
               trades[i].timestamp = counted[n - Len(trades) + i][col]

(* C23: comment-line metadata always reaches the result. For every file of
   either schema parsed without error, with or without trade rows, each
   comment line that holds a recognized label has the key of a label it holds
   in the config of the result; config is empty or absent only when the file
   has no such comment line. *)
C23_CommentMetadataReachesResult ==
    Succeeded =>
        LET config == Get(csv_data, "config", EmptyMap)
            labelled == {i \in 1..Len(csv_file.comments) :
                            LabelsIn(csv_file.comments[i]) # {}}
        IN /\ \A i \in labelled :
                  \E k \in LabelsIn(csv_file.comments[i]) :
                      HasKey(config, ConfigLabels[k][2])
           /\ DOMAIN config = {} => labelled = {}

Validated == pc = "validated"

(* C24: the upload validator and the parser agree: for every CSV file for
   which validate_csv_structure returns valid = true (formats standard, mt5,
   standard_partial, mt5_partial), parse_csv_file on the same file returns a
   result without an 'error' key. *)
C24_ValidFilesParse ==
    (Validated /\ csv_validation.valid) =>
        ~HasKey(parse_csv_file(csv_file), "error")

(* C28: the action/type counts never exceed the trade count. For every table
   parsed without error, buy_trades + sell_trades <= total_trades in the
   STANDARD schema, whatever the Action texts (one may hold both "buy" and
   "sell"), and buy_trades + sell_trades + close_trades = total_trades in the
   MT5 schema. *)
C28_ActionCountsWithinTotal ==
    Succeeded =>
        LET st == csv_data.stats
            buy == Get(st, "buy_trades", 0)
            sell == Get(st, "sell_trades", 0)
        IN IF TakesMt5Route(csv_file.header)
           THEN buy + sell + Get(st, "close_trades", 0) = st.total_trades
           ELSE buy + sell <= st.total_trades

\* The lines of the summary below the recent-trades heading
ListedTrades(text) ==
    LET lines == Lines(text)
        below == SubSeq(lines, IndexOfLine(lines, "RECENT TRADES (Last 5):") + 1,
                        Len(lines))
    IN SelectSeq(below, LAMBDA l : l # "")

(* C29: when create_summary is applied to a result of parse_csv_file, the
   trades listed under "RECENT TRADES (Last 5)" are the last min(5, n) rows
   of the trade table, in input order and numbered from 1, for every number
   n of trade rows, also n > 5. The trades of the result being the last
   min(10, n) rows, these are its last min(5, n) records. *)
C29_SummaryListsTheLastFive ==
    (Summarized /\ HasKey(sum_args[2], "columns")) =>
        LET trades == sum_args[2].trades
            n == Len(trades)
            k == IF n < 5 THEN n ELSE 5
            listed == ListedTrades(summary)
        IN /\ Len(listed) = k
           /\ \A i \in 1..k :
                  listed[i] = ExpectedTradeLine(i, trades[n - k + i])

---------------------------------------------------------------------------
(* The clock: datetime.now() read to the second *)

\* datetime.now().strftime('%Y%m%d_%H%M%S'), the clock starting at midnight
Stamp(t) == "20240101_00000" \o ToString(t)

\* datetime.now().isoformat(): it carries the microseconds, and a later
\* reading within the same second differs in them
IsoStamp(t, later) ==
    "2024-01-01T00:00:0" \o ToString(t) \o ".00000" \o ToString(later)

\* A second passes
Tick ==
    /\ clock < MaxClock
    /\ clock' = clock + 1
    /\ UNCHANGED <<strategies, store_calls, store_base, uploads, reports,
                   requests>>
    /\ UNCHANGED parser_vars

\* The seconds at which a call made now may read the clock next
Soon == {t \in {clock, clock + 1} : t <= MaxClock}

---------------------------------------------------------------------------
(* BasicStore *)

\* The value of store_strategy: the entry put under the identifier made of
\* the clock second, and the text returned. _save_data then rewrites the
\* storage file from self.strategies and swallows every failure.
store_strategy(store, now, later, strategy_name, mq5, csv, summ, claude_response) ==
    LET strategy_id == "strategy_" \o Stamp(now)
        stats == Get(csv, "stats", EmptyMap)
        metadata ==
            [strategy_name |-> strategy_name,
             timestamp |-> IsoStamp(now, later),
             total_trades |-> Get(stats, "total_trades", 0),
             win_rate |-> Get(stats, "win_rate", 0),
             total_pnl |-> Get(stats, "total_pnl", 0),
             indicators |-> Join(Get(mq5, "indicators", <<>>), ", "),
             functions |-> Join(Get(mq5, "functions", <<>>), ", "),
             claude_response_length |-> Len(claude_response)]
        entry == [document |-> summ, metadata |-> metadata, mq5_data |-> mq5,
                  csv_data |-> csv, claude_response |-> claude_response]
    IN [strategy_id |-> strategy_id,
        entry |-> entry,
        strategies |-> (strategy_id :> entry) @@ store,
        returned |-> "Strategy stored successfully"]

\* BasicStore.get_strategy_by_id; None is <<>>
get_strategy_by_id(store, strategy_id) ==
    IF strategy_id \in DOMAIN store
    THEN [id |-> strategy_id,
          metadata |-> store[strategy_id].metadata,
          document |-> store[strategy_id].document,
          mq5_data |-> Get(store[strategy_id], "mq5_data", EmptyMap),
          csv_data |-> Get(store[strategy_id], "csv_data", EmptyMap),
          claude_response |-> Get(store[strategy_id], "claude_response", "")]
    ELSE <<>>

\* BasicStore.get_statistics
get_statistics(store) ==
    [total_strategies |-> Cardinality(DOMAIN store),
     storage_file |-> "storage/strategies.json",
     storage_type |-> "BasicStore"]

\* The table of the stored backtest
StoredTable ==
    [comments |-> <<>>, header |-> required_columns,
     rows |-> <<RowOf(required_columns,
                      Cells("2024-01-01", "Buy", "EURUSD", "1.1", "10"))>>]

\* What the endpoints hand to store_strategy: a name, the two parser
\* results, the summary and the text of the analysis
StoreArgs ==
    {<<name, FullMq5, csv, create_summary(FullMq5, csv), response>> :
        name \in {"MyEA", "Other"},
        csv \in {parse_csv_file(StoredTable)},
        response \in {"", "The strategy is sound."}}

\* chroma_store.store_strategy(...)
StoreStrategy(args) ==
    LET call == store_strategy(strategies, clock, Len(store_calls) + 1,
                               args[1], args[2], args[3], args[4], args[5])
    IN /\ Len(store_calls) < MaxStores
       /\ strategies' = call.strategies
       /\ store_calls' = Append(store_calls,
                                [id |-> call.strategy_id, entry |-> call.entry])
       /\ UNCHANGED <<clock, store_base, uploads, reports, requests>>
       /\ UNCHANGED parser_vars

\* chroma_store.delete_strategy(strategy_id), for an identifier that is stored
DeleteStrategy(strategy_id) ==
    /\ strategy_id \in DOMAIN strategies
    /\ strategies' = [k \in DOMAIN strategies \ {strategy_id} |-> strategies[k]]
    /\ store_calls' = <<>>
    /\ store_base' = Cardinality(DOMAIN strategies) - 1
    /\ UNCHANGED <<clock, uploads, reports, requests>>
    /\ UNCHANGED parser_vars

NextStore ==
    \/ \E args \in StoreArgs : StoreStrategy(args)
    \/ \E strategy_id \in DOMAIN strategies : DeleteStrategy(strategy_id)
    \/ Tick

SpecStore == Init /\ [][NextStore]_vars

(* C25: stored strategies are never overwritten. After any sequence of
   store_strategy calls that each returned "Strategy stored successfully",
   with no delete_strategy in between, every call has produced an identifier
   of its own, get_statistics reports total_strategies grown by exactly the
   number of calls, and every entry stored earlier is still returned
   unchanged by get_strategy_by_id - also when several calls fall within the
   same clock second. *)
C25_StoredStrategiesAreKept ==
    /\ \A i, j \in 1..Len(store_calls) :
           i # j => store_calls[i].id # store_calls[j].id
    /\ get_statistics(strategies).total_strategies
           = store_base + Len(store_calls)
    /\ \A i \in 1..Len(store_calls) :
           LET got == get_strategy_by_id(strategies, store_calls[i].id)
               put == store_calls[i].entry
           IN /\ got # <<>>
              /\ got.document = put.document
              /\ got.metadata = put.metadata
              /\ got.mq5_data = put.mq5_data
              /\ got.csv_data = put.csv_data
              /\ got.claude_response = put.claude_response

---------------------------------------------------------------------------
(* Uploaded files *)

EndsWith(s, suffix) ==
    Len(s) >= Len(suffix) /\ SubSeq(s, Len(s) - Len(suffix) + 1, Len(s)) = suffix

\* The text of a table file: comment lines, header line, data lines
CsvText(file) ==
    LET Line(row) == Join([i \in 1..Len(file.header) |-> row[file.header[i]]], ",")
    IN Join([i \in 1..Len(file.comments) |-> file.comments[i] \o "\n"], "")
       \o Join(file.header, ",") \o "\n"
       \o Join([i \in 1..Len(file.rows) |-> Line(file.rows[i]) \o "\n"], "")

SourceLine == "// Strategy: Beta"

\* The bytes of an upload, as open(..., 'r').read() and as pd.read_csv see
\* them. A source text of one line is a table of one column and no rows.
GoodSource ==
    [source |-> [readable |-> TRUE, msg |-> "", content |-> SourceLine \o "\n",
                 parts |-> <<SourceLine \o "\n">>],
     table |-> [comments |-> <<>>, header |-> <<SourceLine>>, rows |-> <<>>]]

\* Bytes that are not UTF-8
NotUtf8 == "'utf-8' codec can't decode byte 0xff in position 0: invalid start byte"

BadBytes ==
    [source |-> [readable |-> FALSE, msg |-> NotUtf8, content |-> "",
                 parts |-> <<>>],
     table |-> [comments |-> <<>>, header |-> <<>>, rows |-> <<>>,
                failure |-> NotUtf8]]

TableBytes(file) ==
    [source |-> [readable |-> TRUE, msg |-> "", content |-> CsvText(file),
                 parts |-> <<CsvText(file)>>],
     table |-> file]

\* A table the validator accepts and the parser rejects
PartialTable ==
    [comments |-> <<>>, header |-> <<"Timestamp", "Action", "Symbol", "Price">>,
     rows |-> <<>>]

\* A table the validator rejects
TimeTypeTable ==
    [comments |-> <<>>, header |-> <<"Time", "Type">>,
     rows |-> <<RowOf(<<"Time", "Type">>,
                      Cells("2024-01-01", "buy", "EURUSD", "1.1", "10"))>>]

\* The client file names of the two files of a request
NamePairs ==
    {<<"ea.mq5", "data.csv">>, <<"file.txt", "file.txt">>, <<"EA.MQ5", "data.txt">>}

\* The bytes of the two files of a request to /upload
UploadBytes ==
    {<<GoodSource, TableBytes(StoredTable)>>,
     <<GoodSource, TableBytes(PartialTable)>>,
     <<GoodSource, TableBytes(TimeTypeTable)>>}

\* The path save_uploaded_file returns for a file name at a second
UploadPath(now, filename) ==
    "storage/uploads/" \o Stamp(now) \o "_" \o filename

\* save_uploaded_file(uploaded_file, upload_dir): the directory after the
\* bytes are written under the path; a file already there is replaced
save_uploaded_file(dir, now, filename, bytes) ==
    (UploadPath(now, filename) :> bytes) @@ dir

\* os.remove(path) for each path in turn, up to the first that is missing
RemoveInTurn(dir, paths) ==
    LET firstMissing ==
            IF \E i \in 1..Len(paths) :
                   paths[i] \notin DOMAIN dir
                       \/ \E j \in 1..(i - 1) : paths[j] = paths[i]
            THEN SetMin({i \in 1..Len(paths) :
                            paths[i] \notin DOMAIN dir
                                \/ \E j \in 1..(i - 1) : paths[j] = paths[i]})
            ELSE Len(paths) + 1
        gone == {paths[i] : i \in 1..(firstMissing - 1)}
    IN [dir |-> [p \in DOMAIN dir \ gone |-> dir[p]],
        raised |-> firstMissing <= Len(paths),
        msg |-> IF firstMissing <= Len(paths)
                THEN "[Errno 2] No such file or directory: '"
                        \o paths[firstMissing] \o "'"
                ELSE ""]

\* str(e) of an HTTPException: "<status>: <detail>" with a Starlette that
\* defines __str__, the empty text with one that does not
HttpExceptionStr(status, detail) == {ToString(status) \o ": " \o detail, ""}

\* The requests the server is sent
RequestIds == {"first", "second"}

\* A request as it arrives: its files and form field, and the paths its
\* files are saved under if it comes to save them
Received(endpoint, names, bytes, strategy_name, later) ==
    [endpoint |-> endpoint, pc |-> "received", names |-> names,
     bytes |-> bytes, strategy_name |-> strategy_name,
     mq5_path |-> UploadPath(clock, names[1]),
     csv_path |-> UploadPath(later, names[2]),
     saved |-> FALSE, mq5_data |-> EmptyMap, csv_data |-> EmptyMap,
     status |-> 0, detail |-> ""]

Answered(q, status, detail) ==
    [q EXCEPT !.pc = "answered", !.status = status, !.detail = detail]

---------------------------------------------------------------------------
(* POST /upload *)

Mq5ExtensionDetail == "MQL5 file must have .mq5 extension"

CsvExtensionDetail == "CSV file must have .csv extension"

\* upload_files: every exception raised in its body, the HTTPException of a
\* client error included, is caught by `except Exception` and raised again
\* with status 500 and str(e) as detail
UploadFiles(r, names, bytes, later) ==
    LET mq5_path == UploadPath(clock, names[1])
        csv_path == UploadPath(later, names[2])
        saved == save_uploaded_file(
                     save_uploaded_file(uploads, clock, names[1], bytes[1]),
                     later, names[2], bytes[2])
        csv_validation_ == validate_csv_structure(saved[csv_path].table)
        removal == RemoveInTurn(saved, <<mq5_path, csv_path>>)
        request == Received("/upload", names, bytes, "", later)
        Caught(dir, clientDetail) ==
            /\ uploads' = dir
            /\ \E detail \in HttpExceptionStr(400, clientDetail) :
                   requests' = (r :> Answered(request, 500, detail)) @@ requests
    IN /\ r \notin DOMAIN requests
       /\ clock' = later
       /\ IF ~EndsWith(Lower(names[1]), ".mq5")
          THEN /\ clock' = clock
               /\ Caught(uploads, Mq5ExtensionDetail)
          ELSE IF ~EndsWith(Lower(names[2]), ".csv")
          THEN /\ clock' = clock
               /\ Caught(uploads, CsvExtensionDetail)
          ELSE IF ~csv_validation_.valid
          THEN IF removal.raised
               THEN /\ uploads' = removal.dir
                    /\ requests' =
                           (r :> Answered(request, 500, removal.msg)) @@ requests
               ELSE Caught(removal.dir, csv_validation_.error)
          ELSE /\ uploads' = saved
               /\ requests' = (r :> Answered(request, 200, "")) @@ requests
       /\ UNCHANGED <<strategies, store_calls, store_base, reports>>
       /\ UNCHANGED parser_vars

NextUpload ==
    \/ \E r \in RequestIds, names \in NamePairs, bytes \in UploadBytes,
          later \in Soon : UploadFiles(r, names, bytes, later)
    \/ Tick

SpecUpload == Init /\ [][NextUpload]_vars

(* C30: the /upload endpoint answers client errors with status 400. A
   request whose strategy file name does not end in .mq5, whose table file
   name does not end in .csv, or whose CSV fails validate_csv_structure is
   answered with status 400 and the detail of that error; status 500 is
   given only to unexpected failures. *)
C30_ClientErrorsAre400 ==
    \A r \in DOMAIN requests :
        (requests[r].endpoint = "/upload" /\ requests[r].pc = "answered") =>
            LET q == requests[r]
                checked == validate_csv_structure(q.bytes[2].table)
            IN IF ~EndsWith(Lower(q.names[1]), ".mq5")
               THEN q.status = 400 /\ q.detail = Mq5ExtensionDetail
               ELSE IF ~EndsWith(Lower(q.names[2]), ".csv")
               THEN q.status = 400 /\ q.detail = CsvExtensionDetail
               ELSE IF ~checked.valid
               THEN q.status = 400 /\ q.detail = checked.error
               ELSE q.status # 500

---------------------------------------------------------------------------
(* POST /analyze and POST /analyze-comprehensive *)

AnalysisNames == {<<"ea.mq5", "data.csv">>, <<"file.txt", "file.txt">>}

AnalysisBytes ==
    {<<GoodSource, TableBytes(StoredTable)>>,
     <<BadBytes, TableBytes(StoredTable)>>,
     <<GoodSource, TableBytes(PartialTable)>>}

\* The files and the strategy_name form field of a request to an analysis
\* endpoint; the field is "" when the client sends none
AnalysisInputs ==
    {<<names, bytes, "">> : names \in AnalysisNames, bytes \in AnalysisBytes}
        \cup {<<<<"ea.mq5", "data.csv">>,
                <<GoodSource, TableBytes(StoredTable)>>, "My EA">>}

\* What the parsers return for each content a saved file may have
SavedBytes ==
    {GoodSource, BadBytes, TableBytes(StoredTable), TableBytes(PartialTable)}

SourceParses == [b \in SavedBytes |-> parse_mq5_file(b.source)]

TableParses == [b \in SavedBytes |-> parse_csv_file(b.table)]

NoKeyDetail ==
    "Anthropic API key is required. Set ANTHROPIC_API_KEY environment variable."

ServiceFailure == "Connection error."

DiskFailure == "[Errno 28] No space left on device"

RawResponse == "The strategy is sound."

\* "".join(c for c in name if c.isalnum() or c in (' ', '-', '_')).rstrip()
\*    .replace(' ', '_')
RECURSIVE KeepSafe(_)
KeepSafe(s) ==
    IF Len(s) = 0 THEN ""
    ELSE (IF Ch(s, 1) \in WordChars \cup {" ", "-"} THEN Ch(s, 1) ELSE "")
             \o KeepSafe(Tail(s))

RECURSIVE SpacesToUnderscores(_)
SpacesToUnderscores(s) ==
    IF Len(s) = 0 THEN ""
    ELSE (IF Ch(s, 1) = " " THEN "_" ELSE Ch(s, 1))
             \o SpacesToUnderscores(Tail(s))

safe_name(strategy_name) == SpacesToUnderscores(RStrip(KeepSafe(strategy_name)))

generate_report_filename(strategy_name, now) ==
    "report_" \o safe_name(strategy_name) \o "_" \o Stamp(now) \o ".txt"

ComprehensiveReportName(strategy_name, now, extension) ==
    "comprehensive_analysis_" \o safe_name(strategy_name) \o "_"
        \o Stamp(now) \o extension

\* Lines 99-113 and 185-199: both files are saved, both are parsed from the
\* paths they were saved under, and a parser error is answered with 400.
\* The results the step may have: the directory, and the request either
\* answered or holding what was parsed.
SaveAndParse(request, later) ==
    LET saved == save_uploaded_file(
                     save_uploaded_file(uploads, clock, request.names[1],
                                        request.bytes[1]),
                     later, request.names[2], request.bytes[2])
        csv == TableParses[saved[request.csv_path]]
        ParsedAs(mq5) ==
            LET q == [request EXCEPT !.saved = TRUE, !.mq5_data = mq5,
                                     !.csv_data = csv]
            IN IF HasKey(mq5, "error")
               THEN Answered(q, 400, "MQL5 parsing error: " \o mq5.error)
               ELSE IF HasKey(csv, "error")
               THEN Answered(q, 400, "CSV parsing error: " \o csv.error)
               ELSE [q EXCEPT !.pc = "parsed"]
    IN {[dir |-> saved, request |-> ParsedAs(mq5)] :
           mq5 \in SourceParses[saved[request.mq5_path]]}

\* `strategy_name or mq5_data.get('strategy_name', 'Unknown Strategy')`
NameToStore(q) ==
    IF q.strategy_name # "" THEN q.strategy_name
    ELSE Get(q.mq5_data, "strategy_name", "Unknown Strategy")

\* chroma_store.store_strategy(...) as the endpoints call it
StoreParsed(q, claude_response) ==
    store_strategy(strategies, clock', Len(store_calls) + 1, NameToStore(q),
                   q.mq5_data, q.csv_data,
                   create_summary(q.mq5_data, q.csv_data), claude_response)

\* Lines 150-155 and 243-248: the two os.remove calls in one try whose
\* handler is a bare `except: pass`
CleanUp(dir, q) == RemoveInTurn(dir, <<q.mq5_path, q.csv_path>>).dir

\* analyze_strategy: the handler has no await, so it runs in one step.
\* agent is whether get_claude_agent finds an API key, outcome is what
\* claude.analyze_strategy returns. The clock is read at the two saves;
\* the later calls are taken to read the second of the last save.
AnalyzeStrategy(r, input, later, agent, outcome) ==
    LET request == Received("/analyze", input[1], input[2], input[3], later)
        Answer(q) == requests' = (r :> q) @@ requests
        \* lines 135-163, for the request q and the directory dir
        StoreAndCleanUp(q, dir) ==
            \E call \in {StoreParsed(q, RawResponse)} :
               /\ strategies' = call.strategies
               /\ store_calls' = Append(store_calls, [id |-> call.strategy_id,
                                                      entry |-> call.entry])
               /\ reports' = reports \cup
                      {generate_report_filename(NameToStore(q), later)}
               /\ uploads' = CleanUp(dir, q)
               /\ Answer(Answered(q, 200, ""))
    IN /\ r \notin DOMAIN requests
       /\ clock' = later
       /\ IF ~agent
          THEN /\ clock' = clock
               /\ Answer(Answered(request, 500, NoKeyDetail))
               /\ UNCHANGED <<uploads, strategies, store_calls, reports>>
          ELSE \E step \in SaveAndParse(request, later) :
                 IF step.request.pc = "answered"
                 THEN /\ Answer(step.request)
                      /\ uploads' = step.dir
                      /\ UNCHANGED <<strategies, store_calls, reports>>
                 ELSE IF outcome = "failure"
                 THEN /\ Answer(Answered(step.request, 500,
                                         "Claude analysis failed: "
                                             \o ServiceFailure))
                      /\ uploads' = step.dir
                      /\ UNCHANGED <<strategies, store_calls, reports>>
                 ELSE StoreAndCleanUp(step.request, step.dir)
       /\ UNCHANGED store_base
       /\ UNCHANGED parser_vars

\* analyze_strategy_comprehensive up to its await (lines 181-210)
ComprehensiveBegin(r, input, later, analyzer) ==
    LET request == Received("/analyze-comprehensive", input[1], input[2],
                            input[3], later)
        Answer(q) == requests' = (r :> q) @@ requests
    IN /\ r \notin DOMAIN requests
       /\ clock' = later
       /\ IF ~analyzer
          THEN /\ clock' = clock
               /\ Answer(Answered(request, 500, NoKeyDetail))
               /\ UNCHANGED uploads
          ELSE \E step \in SaveAndParse(request, later) :
                 /\ Answer(IF step.request.pc = "answered" THEN step.request
                           ELSE [step.request EXCEPT !.pc = "awaiting"])
                 /\ uploads' = step.dir
       /\ UNCHANGED <<strategies, store_calls, store_base, reports>>
       /\ UNCHANGED parser_vars

\* analyze_strategy_comprehensive from the return of its await (lines
\* 210-266). outcome is what the analysis returned and whether the report
\* files could be written.
ComprehensiveEnd(r, outcome) ==
    LET q == requests[r]
        json == ComprehensiveReportName(NameToStore(q), clock, ".json")
        markdown == ComprehensiveReportName(NameToStore(q), clock, ".md")
        Stored == outcome # "error"
    IN /\ r \in DOMAIN requests
       /\ q.pc = "awaiting"
       /\ clock' = clock
       /\ IF Stored
          THEN \E call \in {StoreParsed(q, RawResponse)} :
                 /\ strategies' = call.strategies
                 /\ store_calls' = Append(store_calls, [id |-> call.strategy_id,
                                                        entry |-> call.entry])
          ELSE UNCHANGED <<strategies, store_calls>>
       /\ CASE outcome = "error" ->
                 /\ requests' =
                        [requests EXCEPT ![r] =
                            Answered(q, 500, "Comprehensive analysis failed: "
                                                \o ServiceFailure)]
                 /\ UNCHANGED <<uploads, reports>>
            [] outcome = "json fails" ->
                 /\ requests' =
                        [requests EXCEPT ![r] =
                            Answered(q, 500, "Error saving comprehensive report: "
                                                \o DiskFailure)]
                 /\ UNCHANGED <<uploads, reports>>
            [] outcome = "markdown fails" ->
                 /\ reports' = reports \cup {json}
                 /\ requests' =
                        [requests EXCEPT ![r] =
                            Answered(q, 500, "Error saving markdown report: "
                                                \o DiskFailure)]
                 /\ UNCHANGED uploads
            [] outcome = "success" ->
                 /\ reports' = reports \cup {json, markdown}
                 /\ uploads' = CleanUp(uploads, q)
                 /\ requests' = [requests EXCEPT ![r] = Answered(q, 200, "")]
       /\ UNCHANGED store_base
       /\ UNCHANGED parser_vars

ComprehensiveOutcomes == {"success", "error", "json fails", "markdown fails"}

NextAnalyze ==
    \/ \E r \in RequestIds, input \in AnalysisInputs, later \in Soon,
          agent \in BOOLEAN, outcome \in {"success", "failure"} :
          AnalyzeStrategy(r, input, later, agent, outcome)
    \/ Tick

\* Requests to /analyze
SpecAnalyze == Init /\ [][NextAnalyze]_vars

NextComprehensive ==
    \/ \E r \in RequestIds, input \in AnalysisInputs, later \in Soon,
          analyzer \in BOOLEAN : ComprehensiveBegin(r, input, later, analyzer)
    \/ \E r \in DOMAIN requests, outcome \in ComprehensiveOutcomes :
          ComprehensiveEnd(r, outcome)
    \/ Tick

\* Requests to /analyze-comprehensive, which interleave at the await
SpecComprehensive == Init /\ [][NextComprehensive]_vars

AnalysisEndpoints == {"/analyze", "/analyze-comprehensive"}

\* The uploads saved so far whose file is still in the directory: the
\* request, which of its two files, and the path save_uploaded_file returned
LiveUploads ==
    {u \in {<<r, which, IF which = 1 THEN requests[r].mq5_path
                         ELSE requests[r].csv_path>> :
                r \in DOMAIN requests, which \in {1, 2}} :
        /\ requests[u[1]].endpoint \in AnalysisEndpoints
        /\ requests[u[1]].saved
        /\ u[3] \in DOMAIN uploads}

(* C26: save_uploaded_file generates a unique path per upload. Any two
   uploads whose files both still exist - the two files of one analysis
   request or files of different requests, the same client file name saved
   within one clock second included - have different paths, so that no
   upload overwrites another and each request parses exactly the strategy
   source and the table it uploaded. *)
C26_UploadPathsAreUnique ==
    /\ \A u \in LiveUploads, v \in LiveUploads :
           (u[1] # v[1] \/ u[2] # v[2]) => u[3] # v[3]
    /\ \A r \in DOMAIN requests :
           (requests[r].endpoint \in AnalysisEndpoints /\ requests[r].saved) =>
               /\ requests[r].mq5_path # requests[r].csv_path
               /\ requests[r].mq5_data
                      \in parse_mq5_file(requests[r].bytes[1].source)
               /\ requests[r].csv_data
                      = parse_csv_file(requests[r].bytes[2].table)

(* C27: temporary uploads are always cleaned up. Every /analyze and
   /analyze-comprehensive request that has saved its two files has removed
   both by the time it responds, on every exit path: success, source-parse
   error, CSV-parse error, analysis failure, unexpected exception. *)
C27_UploadsAreCleanedUp ==
    [][\A r \in DOMAIN requests' :
          ( /\ requests'[r].endpoint \in AnalysisEndpoints
            /\ requests'[r].pc = "answered"
            /\ (r \notin DOMAIN requests \/ requests[r].pc # "answered")
            /\ requests'[r].saved )
          => /\ requests'[r].mq5_path \notin DOMAIN uploads'
             /\ requests'[r].csv_path \notin DOMAIN uploads']_vars

=============================================================================
